---- MODULE Spec2Model ----
(***************************************************************************)
(* Model of the asynchronous grading orchestration core of essay-show:     *)
(* the lease lock around EssayEvaluateStream, the streaming relay, and the *)
(* homework submission poller.                                             *)
(***************************************************************************)
EXTENDS Integers, Sequences, FiniteSets, TLC

(* ------------------------------ bounds -------------------------------- *)
\* longest event stream the remote grading service emits in one call
MaxEvents == 2
\* capacity of the internal channel (make(chan string, 100)), scaled down
DownCap == 1
\* capacity of the sink channel (make(chan string, 100)), scaled down
SinkCap == 1
\* watchdog periods the clock of the lock clients is followed for
LockPeriods == 16
\* watchdog periods the clock of the EssayEvaluate calls is followed for
EvalPeriods == 4
\* quota the user starts with
InitCount == 2
\* number of homework submissions
NumSubs == 2
\* quota the teacher starts with
InitQuota == 1
\* number of progress events the grading service sends to the poller
MaxProgress == 2
\* number of times the clock of the poller is advanced
MaxAdvances == 3
\* number of outages of the document store
MaxOutages == 1
\* length of an id string, and of the id list of a batch request
MaxIdLen == 2
\* number of half TTLs of the download cache that pass
MaxCacheHops == 2
MaxIds == 2

(* ------------------------- program constants -------------------------- *)
\* lock.NewEvaMutex(ctx, key, 30, 200)
InitialTTL == 30
MaxTTL == 200

\* StartGrader: time.NewTicker(30 * time.Second);
\* processTimeoutSubmissions: time.Now().Add(-20 * time.Minute)
TimerInterval == 30
TimeoutDuration == 20 * 60

\* status of a submission
StatusInitialized == 0
StatusGrading == 1
StatusCompleted == 2
StatusModified == 3
StatusFailed == 7

None == "none"
\* the concurrent calls made for the user
Calls == {1, 2}

\* the lock key of a call: "evaluate" + userId (every call is of the one user)
KeyOf(c) == "evaluate_u1"
Keys == {KeyOf(c) : c \in Calls}

\* uuid token of the EvaMutex a call constructs
TokenOf(c) == c

\* the value of a key that is not set
Absent == 0

\* renewal cadence of the watchdog: roughly half of the initial TTL
WatchdogPeriod == InitialTTL \div 2

VARIABLES
    now,        \* wall clock, seconds
    kv,         \* coordination store: key -> [val, exp]
    lk,         \* per call, its EvaMutex: [held, at, wd, expired, due]
    pc,         \* per call, position in EssayEvaluateStream
    ret,        \* per call, value returned by EssayEvaluateStream
    cancelled,  \* per call, ctx.Done() is closed: [fired, inRelay, sentLen]
    io,         \* per call, outcome of its log insert and of its count update
    emitted,    \* per call, events the remote service has emitted so far
    down,       \* per call, contents of downstreamChan
    downClosed, \* per call, downstreamChan is closed (producer returned)
    prod,       \* per call, producer goroutine: "none" | "run" | "done"
    finalResult,\* per call, the local finalResult
    sink,       \* per call, contents of resultChan
    sent,       \* per call, every SendStreamMessage call made, in order
    recvd,      \* per call, every message resultChan accepted, in order
    lockRes,    \* per call, result of Lock()
    unlockRes,  \* per call, result of Unlock()
    logs,       \* log collection: sequence of inserted records
    count,      \* remaining quota of the user
    subs,       \* homework_submission collection: id -> document
    hist,       \* per submission, the statuses persisted for it, in order
    quota,      \* remaining count of the teacher
    charged,    \* per submission, decrements of the quota made for it
    storeUp,    \* the document store answers (reads and writes succeed)
    hops,       \* number of times the poller clock was advanced
    outages,    \* number of outages of the document store so far
    started,    \* the poller loops that StartGrader has started
    ppc,        \* per poller, its position
    tickDue,   \* per poller, a tick waits in ticker.C
    queue,      \* per poller, the submissions FindByStatus returned, left to do
    cur,        \* per poller, the in-memory submission being processed
    ex,         \* per poller, the locals of processOneSubmission
    tp,         \* per poller, the timeout pass: [list, at, failed, selected, reset]
    cache,      \* download cache: key -> [val, exp, at]
    cacheUp,    \* the cache store answers
    got,        \* the last DownloadCacheMapper.Get: [key, at, result, resp]
    dl,         \* the last download call and what it returned
    breq,       \* per batch request, its id list and the cache key computed
    getRes      \* the last GetSubmissionEvaluate call and what it returned

evalVars == <<kv, lk, pc, ret, cancelled, io, emitted, down, downClosed, prod,
              finalResult, sink, sent, recvd, lockRes, unlockRes, logs, count>>
storeVars == <<subs, hist, quota, charged>>
pollerVars == <<started, ppc, tickDue, queue, cur, ex, tp>>
homeworkVars == <<storeVars, storeUp, hops, outages, pollerVars>>

downloadVars == <<cache, cacheUp, got, dl, breq, getRes>>

vars == <<now, evalVars, homeworkVars, downloadVars>>

lockVars == <<kv, lk, lockRes, unlockRes>>
relayVars == <<cancelled, io, emitted, down, downClosed, prod, finalResult>>
sinkVars == <<sink, sent, recvd>>

(* ----------------------------- lease lock ----------------------------- *)
\* the key holds a value that has not reached its expiry
Live(k) == kv[k].val # Absent /\ now < kv[k].exp

\* value stored under k, Absent when absent or expired
Stored(k) == IF Live(k) THEN kv[k].val ELSE Absent

\* a plain set in place of set-if-absent: it succeeds on a live key too
SetAlwaysOk(k) == TRUE

\* atomic set-if-absent with a TTL
SetIfAbsentOk(k) == ~Live(k)
SetIfAbsent(k, v, ttl) == [kv EXCEPT ![k] = [val |-> v, exp |-> now + ttl]]

\* a plain extension of the TTL in place of compare-and-extend
ExtendAlways(k, v, ttl) == [kv EXCEPT ![k].exp = now + ttl]

\* atomic compare-and-extend
CompareAndExtend(k, v, ttl) ==
    IF Stored(k) = v THEN [kv EXCEPT ![k].exp = now + ttl] ELSE kv

\* a plain delete in place of compare-and-delete
DeleteAlways(k, v) == [kv EXCEPT ![k] = [val |-> Absent, exp |-> 0]]

\* atomic compare-and-delete
CompareAndDelete(k, v) ==
    IF Stored(k) = v THEN [kv EXCEPT ![k] = [val |-> Absent, exp |-> 0]] ELSE kv

\* the EvaMutex of a call: held between a successful Lock() and Unlock(),
\* at = time of acquisition, wd = the renewal loop is running, due = time of
\* its next turn, exp = expiry of the lease as last set by this mutex
NoLease == [held |-> FALSE, at |-> 0, wd |-> FALSE, expired |-> FALSE,
            due |-> 0, exp |-> 0]

\* Lock(): set-if-absent of key -> token with initialTTL, fail fast otherwise;
\* on success the renewal loop starts
LockOk(c) == SetIfAbsentOk(KeyOf(c))
Lock(c) ==
    IF LockOk(c)
    THEN /\ kv' = SetIfAbsent(KeyOf(c), TokenOf(c), InitialTTL)
         /\ lk' = [lk EXCEPT ![c] = [held |-> TRUE, at |-> now, wd |-> TRUE,
                                     expired |-> FALSE,
                                     due |-> now + WatchdogPeriod,
                                     exp |-> now + InitialTTL]]
         /\ lockRes' = [lockRes EXCEPT ![c] = "ok"]
    ELSE /\ lockRes' = [lockRes EXCEPT ![c] = "AlreadyHeld"]
         /\ UNCHANGED <<kv, lk>>

\* Unlock(): compare-and-delete, the renewal loop is stopped
UnlockResult(c) == IF Stored(KeyOf(c)) = TokenOf(c) THEN "ok" ELSE "NotOwner"
Unlock(c) ==
    /\ kv' = CompareAndDelete(KeyOf(c), TokenOf(c))
    /\ lk' = [lk EXCEPT ![c].wd = FALSE, ![c].held = FALSE]
    /\ unlockRes' = [unlockRes EXCEPT ![c] = UnlockResult(c)]

\* Expired(): maxTTL was exceeded
Expired(c) == lk[c].expired

\* one turn of the renewal loop of call c, at its due time: it stops once the
\* time since acquisition exceeds maxTTL, and otherwise extends the TTL of
\* the key if the key still holds the token.  The store call of a turn can
\* fail (renewed = FALSE), the loop then tries again a period later.
WatchdogStops(c) == now - lk[c].at > MaxTTL
Renew(c, renewed) ==
    /\ lk[c].wd
    /\ lk[c].due <= now
    /\ IF WatchdogStops(c)
       THEN /\ lk' = [lk EXCEPT ![c].wd = FALSE, ![c].expired = TRUE]
            /\ kv' = kv
       ELSE IF renewed
       THEN /\ kv' = CompareAndExtend(KeyOf(c), TokenOf(c), InitialTTL)
            /\ lk' = [lk EXCEPT ![c].due = now + WatchdogPeriod,
                                ![c].exp = IF Stored(KeyOf(c)) = TokenOf(c)
                                           THEN now + InitialTTL ELSE @]
       ELSE /\ kv' = kv
            /\ lk' = [lk EXCEPT ![c].due = now + WatchdogPeriod]
    /\ UNCHANGED <<lockRes, unlockRes>>

WatchdogTurn(c) ==
    /\ \E renewed \in BOOLEAN : Renew(c, renewed)
    /\ UNCHANGED <<now, pc, ret, relayVars, sinkVars, logs, count>>
    /\ UNCHANGED <<homeworkVars, downloadVars>>

\* the clock advances by one watchdog period, after every due renewal turn;
\* it is followed while a client is in its critical section
Tick ==
    /\ now < LockPeriods * WatchdogPeriod
    /\ \E c \in Calls : lk[c].held
    /\ \A c \in Calls : lk[c].wd => lk[c].due > now
    /\ now' = now + WatchdogPeriod
    /\ UNCHANGED <<lockVars, pc, ret, relayVars, sinkVars, logs, count>>
    /\ UNCHANGED <<homeworkVars, downloadVars>>

\* a client of the lock: Lock(), and on success the critical section
LockerLock(c) ==
    /\ pc[c] = "start"
    /\ Lock(c)
    /\ pc' = [pc EXCEPT ![c] = IF LockOk(c) THEN "held" ELSE "done"]
    /\ UNCHANGED <<now, unlockRes, ret, relayVars, sinkVars, logs, count>>
    /\ UNCHANGED <<homeworkVars, downloadVars>>

\* the client leaves the critical section: Unlock()
LockerUnlock(c) ==
    /\ pc[c] = "held"
    /\ Unlock(c)
    /\ pc' = [pc EXCEPT ![c] = "done"]
    /\ UNCHANGED <<now, lockRes, ret, relayVars, sinkVars, logs, count>>
    /\ UNCHANGED <<homeworkVars, downloadVars>>

(* --------------------------- stream messages -------------------------- *)
\* util.StreamType
STPart == "part"
STComplete == "complete"
STError == "error"

\* util.StreamMessage
StreamMessage(type, message, data) ==
    [type |-> type, message |-> message, data |-> data]

\* a send that waits for room in the channel
SendBlocking(c, type, message, data) ==
    /\ Len(sink[c]) < SinkCap
    /\ sent' = [sent EXCEPT ![c] = Append(@, StreamMessage(type, message, data))]
    /\ sink' = [sink EXCEPT ![c] = Append(@, StreamMessage(type, message, data))]
    /\ recvd' = [recvd EXCEPT ![c] = Append(@, StreamMessage(type, message, data))]

\* SendStreamMessage: a non-blocking send, the message is skipped when the
\* channel is full
SinkHasRoom(c) == Len(sink[c]) < SinkCap
SendStreamMessage(c, type, message, data) ==
    /\ sent' = [sent EXCEPT ![c] = Append(@, StreamMessage(type, message, data))]
    /\ IF SinkHasRoom(c)
       THEN /\ sink' = [sink EXCEPT ![c] = Append(@, StreamMessage(type, message, data))]
            /\ recvd' = [recvd EXCEPT ![c] = Append(@, StreamMessage(type, message, data))]
       ELSE UNCHANGED <<sink, recvd>>

\* the reader of resultChan (APIEssayEvaluateStreamV1) takes the next message
SinkRead(c) ==
    /\ pc[c] # "done"
    /\ sink[c] # <<>>
    /\ sink' = [sink EXCEPT ![c] = Tail(@)]
    /\ UNCHANGED <<now, lockVars, pc, ret, relayVars, sent, recvd, logs, count>>
    /\ UNCHANGED <<homeworkVars, downloadVars>>

(* ------------------------- downstream events -------------------------- *)
\* events of the remote grading service, as decoded from their JSON text:
\* progress events, a complete event whose data is an object, a complete
\* event whose data is not an object, an error event, and a record that is
\* not valid JSON or has an unknown type
ProgressEvents == {[type |-> "progress", message |-> "m", data |-> i] : i \in 1..MaxEvents}
CompleteEvents == {[type |-> "complete", message |-> "", data |-> x] : x \in {"X1", "notObject"}}
ErrorEvents == {[type |-> "error", message |-> "boom", data |-> "E1"]}
OtherEvents == {[type |-> "other", message |-> "", data |-> None]}
Events == ProgressEvents \cup CompleteEvents \cup ErrorEvents \cup OtherEvents

IsObject(x) == x \in {"X1"}

\* json.Marshal of the data object of a complete event
Marshal(x) == <<"json", x>>
EmptyString == <<>>
Last(q) == q[Len(q)]

\* show.EssayEvaluateResp of the final message
EssayEvaluateResp(id, response) ==
    [id |-> id, code |-> 0, msg |-> "grading complete", response |-> response]

(* ------------------------ EssayEvaluateStream ------------------------- *)
\* return of the function: the deferred Unlock runs before the caller
\* gets the value
Return(c, err) ==
    /\ ret' = [ret EXCEPT ![c] = err]
    /\ pc' = [pc EXCEPT ![c] = "unlock"]

\* entry checks, before the lock is taken: authentication, the user record,
\* the remaining count
Begin(c) ==
    /\ pc[c] = "start"
    /\ \E userId \in {"", "ghost", "u1"} :
         IF userId = ""
         THEN /\ SendStreamMessage(c, STError, "user not authenticated", None)
              /\ ret' = [ret EXCEPT ![c] = "ErrNotAuthentication"]
              /\ pc' = [pc EXCEPT ![c] = "done"]
         ELSE IF userId = "ghost"
         THEN /\ SendStreamMessage(c, STError, "user does not exist", None)
              /\ ret' = [ret EXCEPT ![c] = "ErrNotFound"]
              /\ pc' = [pc EXCEPT ![c] = "done"]
         ELSE IF count <= 0
         THEN /\ SendStreamMessage(c, STError, "insufficient remaining count", None)
              /\ ret' = [ret EXCEPT ![c] = "ErrInSufficientCount"]
              /\ pc' = [pc EXCEPT ![c] = "done"]
         ELSE /\ pc' = [pc EXCEPT ![c] = "lock"]
              /\ UNCHANGED <<ret, sinkVars>>
    /\ UNCHANGED <<now, lockVars, relayVars, logs, count>>
    /\ UNCHANGED <<homeworkVars, downloadVars>>

\* a TryLock that ignores the error of Lock() and goes on into the relay
TryLockIgnoringError(c) ==
    /\ pc[c] = "lock"
    /\ Lock(c)
    /\ pc' = [pc EXCEPT ![c] = "relay"]
    /\ prod' = [prod EXCEPT ![c] = "run"]
    /\ UNCHANGED <<now, unlockRes, ret, sinkVars, cancelled, io, emitted, down,
                   downClosed, finalResult, logs, count>>
    /\ UNCHANGED <<homeworkVars, downloadVars>>

\* distributedLock.Lock(); on failure one error message and ErrOneCall, on
\* success the producer goroutine is started
TryLock(c) ==
    /\ pc[c] = "lock"
    /\ Lock(c)
    /\ IF LockOk(c)
       THEN /\ pc' = [pc EXCEPT ![c] = "relay"]
            /\ prod' = [prod EXCEPT ![c] = "run"]
            /\ UNCHANGED <<ret, sinkVars>>
       ELSE /\ SendStreamMessage(c, STError, "a grading is already in progress", None)
            /\ ret' = [ret EXCEPT ![c] = "ErrOneCall"]
            /\ pc' = [pc EXCEPT ![c] = "done"]
            /\ prod' = prod
    /\ UNCHANGED <<now, unlockRes, cancelled, io, emitted, down, downClosed,
                   finalResult, logs, count>>
    /\ UNCHANGED <<homeworkVars, downloadVars>>

\* a stream that is read on after a complete event
StopsOnErrorOnly(e) == e.type = "error"

\* SendRequestStream stops after an event of one of these types
StopsStream(e) == e.type \in {"complete", "error"}

\* producer goroutine: SendRequestStream puts the next event of the remote
\* stream on the channel (blocking while the channel is full) and returns
\* after a complete or an error event; the deferred close follows the return.
\* ctx.Done() is looked at before each line and in the select of the send,
\* so after a cancellation at most the event in flight is still sent.
ProducerSend(c) ==
    /\ prod[c] = "run"
    /\ cancelled[c].fired => Len(emitted[c]) = cancelled[c].emitLen
    /\ Len(emitted[c]) < MaxEvents
    /\ Len(down[c]) < DownCap
    /\ \E e \in Events :
         /\ e.type = "progress" => e.data = Len(emitted[c]) + 1
         /\ emitted' = [emitted EXCEPT ![c] = Append(@, e)]
         /\ down' = [down EXCEPT ![c] = Append(@, e)]
         /\ IF StopsStream(e)
            THEN /\ prod' = [prod EXCEPT ![c] = "done"]
                 /\ downClosed' = [downClosed EXCEPT ![c] = TRUE]
            ELSE UNCHANGED <<prod, downClosed>>
    /\ UNCHANGED <<now, lockVars, pc, ret, cancelled, io, finalResult,
                   sinkVars, logs, count>>
    /\ UNCHANGED <<homeworkVars, downloadVars>>

\* a producer goroutine that returns without closing the channel
ProducerReturnNoClose(c) ==
    /\ prod[c] = "run"
    /\ prod' = [prod EXCEPT ![c] = "done"]
    /\ UNCHANGED <<now, lockVars, pc, ret, cancelled, io, emitted, down, downClosed,
                   finalResult, sinkVars, logs, count>>
    /\ UNCHANGED <<homeworkVars, downloadVars>>

\* the remote stream ends (or the request fails), or the producer observes
\* ctx.Done(): SendRequestStream returns and the channel is closed
ProducerReturn(c) ==
    /\ prod[c] = "run"
    /\ prod' = [prod EXCEPT ![c] = "done"]
    /\ downClosed' = [downClosed EXCEPT ![c] = TRUE]
    /\ UNCHANGED <<now, lockVars, pc, ret, cancelled, io, emitted, down,
                   finalResult, sinkVars, logs, count>>
    /\ UNCHANGED <<homeworkVars, downloadVars>>

\* the caller's context is cancelled while the call is running
NotCancelled == [fired |-> FALSE, inRelay |-> FALSE, sentLen |-> 0, emitLen |-> 0]
Cancel(c) ==
    /\ pc[c] \in {"relay", "insert", "count"}
    /\ ~cancelled[c].fired
    /\ cancelled' = [cancelled EXCEPT ![c] = [fired |-> TRUE,
                                              inRelay |-> pc[c] = "relay",
                                              sentLen |-> Len(sent[c]),
                                              emitLen |-> Len(emitted[c])]]
    /\ UNCHANGED <<now, lockVars, pc, ret, io, emitted, down, downClosed, prod,
                   finalResult, sinkVars, logs, count>>
    /\ UNCHANGED <<homeworkVars, downloadVars>>

\* the code after the read loop (exitLoop): an empty finalResult is the
\* failure message "grading failed", otherwise the log record is inserted next
ExitLoop(c, result) ==
    IF Len(result) = 0
    THEN /\ SendStreamMessage(c, STError, "grading failed", None)
         /\ Return(c, "ErrCall")
    ELSE /\ pc' = [pc EXCEPT ![c] = "insert"]
         /\ UNCHANGED <<ret, sinkVars>>

\* a progress case that forwards nothing
OnProgressSilent(c, e) == UNCHANGED <<pc, ret, finalResult, sinkVars>>

\* case "progress": the event is forwarded as a part message
OnProgress(c, e) ==
    /\ SendStreamMessage(c, STPart, e.message, e.data)
    /\ UNCHANGED <<pc, ret, finalResult>>

\* case "complete": the data object is captured and the loop is left
OnComplete(c, e) ==
    LET result == IF IsObject(e.data) THEN Marshal(e.data) ELSE finalResult[c] IN
    /\ finalResult' = [finalResult EXCEPT ![c] = result]
    /\ ExitLoop(c, result)

\* an error case that sends the message and stays in the loop
OnErrorContinue(c, e) ==
    /\ SendStreamMessage(c, STError, "downstream service error", e.data)
    /\ UNCHANGED <<pc, ret, finalResult>>

\* case "error": one error message, and the function returns ErrCall
OnError(c, e) ==
    /\ SendStreamMessage(c, STError, "downstream service error", e.data)
    /\ Return(c, "ErrCall")
    /\ UNCHANGED finalResult

\* one iteration of "for jsonMessage := range downstreamChan"
ConsumerRecv(c) ==
    /\ pc[c] = "relay"
    /\ down[c] # <<>>
    /\ down' = [down EXCEPT ![c] = Tail(@)]
    /\ LET e == Head(down[c]) IN
         CASE e.type = "progress" -> OnProgress(c, e)
           [] e.type = "complete" -> OnComplete(c, e)
           [] e.type = "error" -> OnError(c, e)
           [] OTHER -> UNCHANGED <<pc, ret, finalResult, sinkVars>>
    /\ UNCHANGED <<now, lockVars, cancelled, io, emitted, downClosed, prod,
                   logs, count>>
    /\ UNCHANGED <<homeworkVars, downloadVars>>

\* the range loop ends: the channel is closed and drained
ConsumerClosed(c) ==
    /\ pc[c] = "relay"
    /\ down[c] = <<>>
    /\ downClosed[c]
    /\ ExitLoop(c, finalResult[c])
    /\ UNCHANGED <<now, lockVars, relayVars, logs, count>>
    /\ UNCHANGED <<homeworkVars, downloadVars>>

\* s.LogMapper.Insert(ctx, l)
NoIO == [remote |-> None, lost |-> FALSE, insert |-> None, count |-> None]
LogInsert(c) ==
    /\ pc[c] = "insert"
    /\ \E ok \in BOOLEAN :
         IF ok
         THEN /\ logs' = Append(logs, [userId |-> "u1", response |-> finalResult[c],
                                       status |-> 0, call |-> c])
              /\ io' = [io EXCEPT ![c].insert = "ok"]
              /\ pc' = [pc EXCEPT ![c] = "count"]
              /\ UNCHANGED <<ret, sinkVars>>
         ELSE /\ SendStreamMessage(c, STError, "log record failed", None)
              /\ Return(c, "ErrCall")
              /\ io' = [io EXCEPT ![c].insert = "failed"]
              /\ logs' = logs
    /\ UNCHANGED <<now, lockVars, cancelled, emitted, down, downClosed, prod,
                   finalResult, count>>
    /\ UNCHANGED <<homeworkVars, downloadVars>>

\* s.UserMapper.UpdateCount(ctx, userId, -1), then the final message
UpdateCount(c) ==
    /\ pc[c] = "count"
    /\ \E ok \in BOOLEAN :
         IF ok
         THEN /\ count' = count - 1
              /\ io' = [io EXCEPT ![c].count = "ok"]
              /\ SendStreamMessage(c, STComplete, "grading finished",
                                   EssayEvaluateResp(c, finalResult[c]))
              /\ Return(c, "nil")
         ELSE /\ SendStreamMessage(c, STError, "count deduction failed", None)
              /\ Return(c, "ErrCall")
              /\ io' = [io EXCEPT ![c].count = "failed"]
              /\ count' = count
    /\ UNCHANGED <<now, lockVars, cancelled, emitted, down, downClosed, prod,
                   finalResult, logs>>
    /\ UNCHANGED <<homeworkVars, downloadVars>>

\* the deferred function: distributedLock.Unlock()
DeferredUnlock(c) ==
    /\ pc[c] = "unlock"
    /\ Unlock(c)
    /\ pc' = [pc EXCEPT ![c] = "done"]
    /\ UNCHANGED <<now, lockRes, ret, relayVars, sinkVars, logs, count>>
    /\ UNCHANGED <<homeworkVars, downloadVars>>

(* ------------------------- homework submissions ------------------------ *)

SubIds == 1..NumSubs
\* the submission that is submitted first
FirstSub == {s \in SubIds : \A r \in SubIds : s <= r}
Pollers == {1, 2}
\* the loop the service starts when it boots
BootPoller == {1}

\* json.Marshal of the object a complete event carries
Payloads == {"X1", "noScore", "badType"}
\* json.Unmarshal([]byte(finalResult), &evaluateResult)
UnmarshalOk(str) == str[2] # "badType"
\* evaluateResult.AIEvaluation.ScoreEvaluation.Scores.AllWithTotal
AllWithTotal(str) ==
    IF str[2] = "X1" THEN <<"8", "5", "/", "1", "0", "0">> ELSE EmptyString

\* strings.Split(s, "/")[0]
RECURSIVE SplitFirst(_)
SplitFirst(s) ==
    IF s = <<>> \/ Head(s) = "/" THEN <<>>
    ELSE <<Head(s)>> \o SplitFirst(Tail(s))

\* the events of one grading stream, as EvaluateStream puts them on resultChan:
\* it returns after the first complete or error event
GradeProgress == [type |-> "progress", hasMessage |-> TRUE, message |-> "m", data |-> None]
GradeComplete(x) == [type |-> "complete", hasMessage |-> TRUE, message |-> "done", data |-> x]
GradeError(has) == [type |-> "error", hasMessage |-> has, message |-> "boom", data |-> None]
GradeTerminals ==
    {GradeComplete(x) : x \in Payloads \cup {"notObject"}}
        \cup {GradeError(has) : has \in BOOLEAN}
ProgressRun(n) == [i \in 1..n |-> GradeProgress]

\* the events the grading service sends in one response: progress events,
\* then none, one or two events of which the first is a complete or an error
RemoteStreams ==
    {ProgressRun(n) : n \in 0..MaxProgress}
        \cup {ProgressRun(n) \o <<t>> : n \in 0..MaxProgress, t \in GradeTerminals}
        \cup {ProgressRun(n) \o <<t, u>> :
                 n \in 0..MaxProgress, t \in GradeTerminals,
                 u \in GradeTerminals \cup {GradeProgress}}

\* SendRequestStream: the events of the response are put on the channel one
\* by one, and the function returns after a complete or an error event
RECURSIVE SendRequestStream(_)
SendRequestStream(q) ==
    IF q = <<>> THEN <<>>
    ELSE IF StopsStream(Head(q)) THEN <<Head(q)>>
    ELSE <<Head(q)>> \o SendRequestStream(Tail(q))

GradeStreams == {SendRequestStream(q) : q \in RemoteStreams}

\* the loop over resultChan of processOneSubmission: a complete event sets
\* finalResult and the loop goes on, an error event ends the processing
RECURSIVE RangeResultChan(_, _)
RangeResultChan(q, fr) ==
    IF q = <<>> THEN [kind |-> "closed", finalResult |-> fr, reason |-> ""]
    ELSE LET e == Head(q) IN
         CASE e.type = "complete" ->
                RangeResultChan(Tail(q), IF e.data \in Payloads THEN Marshal(e.data) ELSE fr)
           [] e.type = "error" ->
                IF e.hasMessage
                THEN [kind |-> "failed", finalResult |-> fr, reason |-> e.message]
                ELSE [kind |-> "panic", finalResult |-> fr, reason |-> ""]
           [] OTHER -> RangeResultChan(Tail(q), fr)

\* a HomeworkSubmission document; the ids are given in the order of insertion,
\* so the order of create_time is the order of the ids
NewSubmission(s, t) ==
    [id |-> s, status |-> StatusInitialized, response |-> EmptyString,
     gradeResult |-> EmptyString, message |-> "", title |-> "",
     updateTime |-> t]

\* the documents of set S in a sequence, ascending by key
SortBy(S, key) ==
    CHOOSE q \in [1..Cardinality(S) -> S] :
        /\ \A i, j \in 1..Cardinality(S) : i < j =>
             /\ q[i] # q[j]
             /\ \/ key[q[i]] < key[q[j]]
                \/ key[q[i]] = key[q[j]] /\ q[i].id < q[j].id

CreateTimeOf(S) == [d \in S |-> d.id]
UpdateTimeOf(S) == [d \in S |-> d.updateTime]
Docs == {subs[s] : s \in DOMAIN subs}

\* a query sorted by create_time descending
FindByStatusNewestFirst(status) ==
    LET found == {d \in Docs : d.status = status}
    IN  SortBy(found, [d \in found |-> 0 - d.id])

\* SubmissionMongoMapper.FindByStatus: filter on status, sorted by create_time
FindByStatus(status) ==
    LET found == {d \in Docs : d.status = status}
    IN  SortBy(found, CreateTimeOf(found))

\* a filter with $lte in place of $lt
TimedOutAtOrBefore(d, before) == d.updateTime <= before
\* SubmissionMongoMapper.FindTimeoutSubmissions: status and update_time < before
IsTimedOut(d, before) == d.updateTime < before
FindTimeoutSubmissions(status, before) ==
    LET found == {d \in Docs : d.status = status /\ IsTimedOut(d, before)}
    IN  SortBy(found, UpdateTimeOf(found))

\* the persisted status history grows when a write changes the status
Persist(d) ==
    /\ subs' = [subs EXCEPT ![d.id] = d]
    /\ hist' = [hist EXCEPT ![d.id] =
                  IF Last(@) = d.status THEN @ ELSE Append(@, d.status)]

\* SubmissionMongoMapper.Update: sets update_time and $set of the whole
\* document; an error of the store leaves the collection as it was
Update(d) ==
    IF storeUp THEN Persist([d EXCEPT !.updateTime = now])
    ELSE UNCHANGED <<subs, hist>>

\* SubmitHomework: inserts the submission with status INITIALIZED
SubmitHomework(s) ==
    /\ s \notin DOMAIN subs
    /\ \A r \in SubIds : r < s => r \in DOMAIN subs
    /\ storeUp
    /\ subs' = subs @@ (s :> NewSubmission(s, now))
    /\ hist' = [hist EXCEPT ![s] = <<StatusInitialized>>]
    /\ UNCHANGED <<now, evalVars, downloadVars, quota, charged, storeUp, hops, outages, pollerVars>>

\* locals of one run of processOneSubmission, and what happened in it
NoEx ==
    [phase |-> "none", ocr |-> None, stream |-> <<>>, finalResult |-> EmptyString,
     reason |-> "", quotaBefore |-> 0, fresh |-> FALSE, storeFailed |-> FALSE]
NoDoc == NewSubmission(0, 0)
NoPass == [list |-> <<>>, at |-> 0, failed |-> FALSE, selected |-> {}, reset |-> {}]

\* StartGrader: starts a goroutine with a 30 second ticker, on every call
StartGrader(p) ==
    /\ p \notin started
    /\ started' = started \cup {p}
    /\ ppc' = [ppc EXCEPT ![p] = "idle"]
    /\ UNCHANGED <<now, evalVars, downloadVars, storeVars, storeUp, hops, outages, tickDue,
                   queue, cur, ex, tp>>

\* case <-ticker.C: processHomeworkSubmissions, up to the loop
PollerTick(p) ==
    /\ ppc[p] = "idle"
    /\ tickDue[p]
    /\ tickDue' = [tickDue EXCEPT ![p] = FALSE]
    /\ LET submissions == IF storeUp THEN FindByStatus(StatusInitialized) ELSE <<>>
       IN  /\ queue' = [queue EXCEPT ![p] = submissions]
           /\ ppc' = [ppc EXCEPT ![p] = IF submissions = <<>> THEN "idle" ELSE "proc"]
    /\ UNCHANGED <<now, evalVars, downloadVars, storeVars, storeUp, hops, outages, started, cur, ex, tp>>

\* processOneSubmission returns: the next submission, or the timeout pass
ProcReturn(p) ==
    /\ ppc[p] = "ret"
    /\ ppc' = [ppc EXCEPT ![p] = IF queue[p] = <<>> THEN "tfind" ELSE "proc"]
    /\ cur' = [cur EXCEPT ![p] = NoDoc]
    /\ ex' = [ex EXCEPT ![p] = NoEx]
    /\ UNCHANGED <<now, evalVars, downloadVars, storeVars, storeUp, hops, outages, started, tickDue,
                   queue, tp>>

\* a test that lets a count of 0 through
QuotaNotNegative(c) == c >= 0
\* the negation of teacher.Count < 1
QuotaLeft(c) == c >= 1

\* processOneSubmission up to the OCR: teacher, quota, homework, TitleUrlOCR
ProcBegin(p) ==
    /\ ppc[p] = "proc"
    /\ queue[p] # <<>>
    /\ queue' = [queue EXCEPT ![p] = Tail(@)]
    /\ cur' = [cur EXCEPT ![p] = Head(queue[p])]
    /\ \E o \in {"error", "code", "ok"} :
         LET s == Head(queue[p]).id
             reason == CASE ~storeUp -> "teacher lookup failed"
                         [] storeUp /\ ~QuotaLeft(quota) -> "teacher has no grading count left"
                         [] storeUp /\ QuotaLeft(quota) /\ o = "error" -> "ocr error"
                         [] storeUp /\ QuotaLeft(quota) /\ o = "code" -> "OCR failed"
                         [] OTHER -> ""
             called == storeUp /\ QuotaLeft(quota)
         IN  /\ ex' = [ex EXCEPT ![p] =
                        [NoEx EXCEPT !.phase = "running",
                                     !.ocr = IF called THEN o ELSE None,
                                     !.reason = reason,
                                     !.quotaBefore = quota,
                                     !.fresh = (hist[s] = <<StatusInitialized>>),
                                     !.storeFailed = ~storeUp]]
             /\ ppc' = [ppc EXCEPT ![p] = IF reason = "" THEN "mark" ELSE "fail"]
    /\ UNCHANGED <<now, evalVars, downloadVars, storeVars, storeUp, hops, outages, started, tickDue, tp>>

\* submission.Status = StatusGrading; Update, its error not looked at
MarkGrading(p) ==
    /\ ppc[p] = "mark"
    /\ LET d == [cur[p] EXCEPT !.status = StatusGrading, !.title = "title",
                               !.updateTime = now]
       IN  /\ cur' = [cur EXCEPT ![p] = d]
           /\ Update(d)
    /\ ex' = [ex EXCEPT ![p].storeFailed = @ \/ ~storeUp]
    /\ ppc' = [ppc EXCEPT ![p] = "stream"]
    /\ UNCHANGED <<now, evalVars, downloadVars, quota, charged, storeUp, hops, outages, started,
                   tickDue, queue, tp>>

\* EvaluateStream and the loop over resultChan, then the checks of finalResult
GradeOutcome(stream) ==
    LET r == RangeResultChan(stream, EmptyString) IN
    CASE r.kind = "panic" -> [r EXCEPT !.reason = "panic"]
      [] r.kind = "failed" -> r
      [] r.kind = "closed" /\ Len(r.finalResult) = 0 ->
            [r EXCEPT !.kind = "failed", !.reason = "grading result is empty"]
      [] r.kind = "closed" /\ Len(r.finalResult) # 0 /\ ~UnmarshalOk(r.finalResult) ->
            [r EXCEPT !.kind = "failed", !.reason = "grading result is not valid"]
      [] OTHER -> [r EXCEPT !.kind = "graded"]

GradeDone(p) ==
    /\ ppc[p] = "stream"
    /\ \E stream \in GradeStreams :
         LET r == GradeOutcome(stream) IN
         /\ ex' = [ex EXCEPT ![p].stream = stream,
                             ![p].finalResult = r.finalResult,
                             ![p].reason = r.reason]
         /\ ppc' = [ppc EXCEPT ![p] = CASE r.kind = "panic" -> "crashed"
                                         [] r.kind = "failed" -> "fail"
                                         [] OTHER -> "charge"]
    /\ UNCHANGED <<now, evalVars, downloadVars, storeVars, storeUp, hops, outages, started, tickDue,
                   queue, cur, tp>>

\* a processing that goes on to the save without deducting the count
ChargeSkipped(p) ==
    /\ ppc[p] = "charge"
    /\ ppc' = [ppc EXCEPT ![p] = "save"]
    /\ UNCHANGED <<now, evalVars, downloadVars, storeVars, storeUp, hops, outages, started, tickDue,
                   queue, cur, ex, tp>>
\* UserMapper.UpdateCount(ctx, submission.TeacherID, -1)
Charge(p) ==
    /\ ppc[p] = "charge"
    /\ IF storeUp
       THEN /\ quota' = quota - 1
            /\ charged' = [charged EXCEPT ![cur[p].id] = @ + 1]
            /\ ppc' = [ppc EXCEPT ![p] = "save"]
            /\ ex' = ex
       ELSE /\ ppc' = [ppc EXCEPT ![p] = "fail"]
            /\ ex' = [ex EXCEPT ![p].reason = "count deduction failed",
                                ![p].storeFailed = TRUE]
            /\ UNCHANGED <<quota, charged>>
    /\ UNCHANGED <<now, evalVars, downloadVars, subs, hist, storeUp, hops, outages, started, tickDue,
                   queue, cur, tp>>

\* status COMPLETED, Response and GradeResult set, Update; on its error
\* markSubmissionFailed with the submission as it now is in memory
Save(p) ==
    /\ ppc[p] = "save"
    /\ LET d == [cur[p] EXCEPT !.status = StatusCompleted,
                               !.updateTime = now,
                               !.response = ex[p].finalResult,
                               !.gradeResult = SplitFirst(AllWithTotal(ex[p].finalResult))]
       IN  /\ cur' = [cur EXCEPT ![p] = d]
           /\ Update(d)
    /\ IF storeUp
       THEN /\ ppc' = [ppc EXCEPT ![p] = "ret"]
            /\ ex' = [ex EXCEPT ![p].phase = "finished"]
       ELSE /\ ppc' = [ppc EXCEPT ![p] = "fail"]
            /\ ex' = [ex EXCEPT ![p].reason = "update failed",
                                ![p].storeFailed = TRUE]
    /\ UNCHANGED <<now, evalVars, downloadVars, quota, charged, storeUp, hops, outages, started,
                   tickDue, queue, tp>>

\* markSubmissionFailed: status FAILED and the reason, Update, its error logged
MarkSubmissionFailed(p) ==
    /\ ppc[p] = "fail"
    /\ LET d == [cur[p] EXCEPT !.status = StatusFailed,
                               !.message = ex[p].reason,
                               !.updateTime = now]
       IN  /\ cur' = [cur EXCEPT ![p] = d]
           /\ Update(d)
    /\ ex' = [ex EXCEPT ![p].phase = "finished",
                        ![p].storeFailed = @ \/ ~storeUp]
    /\ ppc' = [ppc EXCEPT ![p] = "ret"]
    /\ UNCHANGED <<now, evalVars, downloadVars, quota, charged, storeUp, hops, outages, started,
                   tickDue, queue, tp>>

\* processTimeoutSubmissions: FindTimeoutSubmissions(GRADING, now - 20 minutes)
TimeoutFind(p) ==
    /\ ppc[p] = "tfind"
    /\ LET submissions ==
             IF storeUp
             THEN FindTimeoutSubmissions(StatusGrading, now - TimeoutDuration)
             ELSE <<>>
       IN  /\ tp' = [tp EXCEPT ![p] =
                       [list |-> submissions, at |-> now, failed |-> ~storeUp,
                        selected |-> {submissions[i].id : i \in DOMAIN submissions},
                        reset |-> {}]]
           /\ ppc' = [ppc EXCEPT ![p] = "treset"]
    /\ UNCHANGED <<now, evalVars, downloadVars, storeVars, storeUp, hops, outages, started, tickDue,
                   queue, cur, ex>>

\* the loop of processTimeoutSubmissions: status INITIALIZED, Update, its
\* error not looked at
TimeoutReset(p) ==
    /\ ppc[p] = "treset"
    /\ tp[p].list # <<>>
    /\ LET d == [Head(tp[p].list) EXCEPT !.status = StatusInitialized,
                                         !.updateTime = now]
       IN  /\ Update(d)
           /\ tp' = [tp EXCEPT ![p].list = Tail(@),
                               ![p].failed = @ \/ ~storeUp,
                               ![p].reset = IF storeUp THEN @ \cup {d.id} ELSE @]
    /\ UNCHANGED <<now, evalVars, downloadVars, quota, charged, storeUp, hops, outages, started, ppc,
                   tickDue, queue, cur, ex>>

\* the loop of processTimeoutSubmissions is over: the tick is done
TimeoutReturn(p) ==
    /\ ppc[p] = "treset"
    /\ tp[p].list = <<>>
    /\ ppc' = [ppc EXCEPT ![p] = "idle"]
    /\ tp' = [tp EXCEPT ![p] = NoPass]
    /\ UNCHANGED <<now, evalVars, downloadVars, storeVars, storeUp, hops, outages, started, tickDue,
                   queue, cur, ex>>

\* the process is started again after a panic of the poller goroutine
Restart(p) ==
    /\ ppc[p] = "crashed"
    /\ ppc' = [ppc EXCEPT ![p] = "idle"]
    /\ tickDue' = [tickDue EXCEPT ![p] = FALSE]
    /\ queue' = [queue EXCEPT ![p] = <<>>]
    /\ cur' = [cur EXCEPT ![p] = NoDoc]
    /\ ex' = [ex EXCEPT ![p] = NoEx]
    /\ tp' = [tp EXCEPT ![p] = NoPass]
    /\ UNCHANGED <<now, evalVars, downloadVars, storeVars, storeUp, hops, outages, started>>

\* time passes: one tick interval, or the timeout duration; the ticker of a
\* running loop puts a tick in its channel, which holds one
Advance(d) ==
    /\ hops < MaxAdvances
    /\ hops' = hops + 1
    /\ now' = now + d
    /\ tickDue' = [p \in Pollers |-> tickDue[p] \/ ppc[p] \notin {"off", "crashed"}]
    /\ UNCHANGED <<evalVars, downloadVars, storeVars, storeUp, outages, started, ppc, queue,
                   cur, ex, tp>>

\* the ticker goes on firing after the last instant the clock is followed to
TickerFires ==
    /\ hops = MaxAdvances
    /\ \E p \in Pollers : ~tickDue[p] /\ ppc[p] \notin {"off", "crashed"}
    /\ tickDue' = [p \in Pollers |-> tickDue[p] \/ ppc[p] \notin {"off", "crashed"}]
    /\ UNCHANGED <<now, evalVars, downloadVars, storeVars, storeUp, hops, outages,
                   started, ppc, queue, cur, ex, tp>>

\* the document store stops answering, and answers again
StoreFail ==
    /\ storeUp
    /\ outages < MaxOutages
    /\ outages' = outages + 1
    /\ storeUp' = FALSE
    /\ UNCHANGED <<now, evalVars, downloadVars, storeVars, hops, pollerVars>>

StoreRecover ==
    /\ ~storeUp
    /\ storeUp' = TRUE
    /\ UNCHANGED <<now, evalVars, downloadVars, storeVars, hops, outages, pollerVars>>

(* ---------------------------- download cache --------------------------- *)
\* download_cache.go: key prefix and TTL in seconds
downloadEvaluateCachePrefix == "download_evaluate"
downloadEvaluateCacheExpire == 3600

\* an id is a string of bytes: the digits and letters of the hex form of an
\* ObjectID; the byte "_" lies between the digits and the lower-case letters
Underscore == 95
HexOfSub(s) == <<48 + s>>
HexOfLog(i) == <<96 + i>>

\* byte-wise order of strings, as sort.Strings compares them
RECURSIVE StringLess(_, _)
StringLess(a, b) ==
    CASE b = <<>> -> FALSE
      [] a = <<>> -> TRUE
      [] Head(a) # Head(b) -> Head(a) < Head(b)
      [] OTHER -> StringLess(Tail(a), Tail(b))

\* sort.Strings on a copy of the list: the lists with the same elements,
\* each as often, in ascending order
Occurrences(q, x) == Cardinality({i \in DOMAIN q : q[i] = x})
IsSorted(q) == \A i \in 1..(Len(q) - 1) : ~StringLess(q[i + 1], q[i])
SortStrings(ids) ==
    CHOOSE q \in [1..Len(ids) -> {ids[i] : i \in DOMAIN ids}] :
        /\ \A i \in DOMAIN ids : Occurrences(q, ids[i]) = Occurrences(ids, ids[i])
        /\ IsSorted(q)

\* strings.Join(list, "_")
RECURSIVE Join(_)
Join(q) ==
    IF q = <<>> THEN <<>>
    ELSE IF Len(q) = 1 THEN q[1]
    ELSE q[1] \o <<Underscore>> \o Join(Tail(q))

\* DownloadSubmissionEvaluate: sortedIds is a sorted copy of req.SubmissionIds,
\* cacheKey the sorted ids joined by "_"; the list of the request stays as it is
CacheKeyOf(ids) == Join(SortStrings(ids))
\* req.SubmissionIds after the key was computed
RequestAfterKey(ids) == ids

\* the ids of the log records and the id lists of the batch requests that
\* the download calls are made with
DownloadIds == {HexOfLog(1)}
BatchRequests ==
    {<<HexOfSub(s)>> : s \in FirstSub}
        \cup {<<HexOfSub(q[1]), HexOfSub(q[2])>> :
                  q \in {x \in SubIds \X FirstSub : x[1] # x[2]}}
CacheIds == DownloadIds \cup {CacheKeyOf(ids) : ids \in BatchRequests}

\* buildCacheKey: fmt.Sprintf("%s:%s", downloadEvaluateCachePrefix, id)
buildCacheKey(id) == <<downloadEvaluateCachePrefix, ":", id>>

\* json.Marshal and json.Unmarshal of a show.DownloadEvaluateResp
NoResp == [url |-> <<>>, sessionToken |-> <<>>]
MarshalResp(P) == <<"{", "url", P.url, "sessionToken", P.sessionToken, "}">>
CorruptData == <<"{", "url">>
UnmarshalRespOk(str) ==
    /\ Len(str) = 6
    /\ str[1] = "{" /\ str[2] = "url" /\ str[4] = "sessionToken" /\ str[6] = "}"
UnmarshalResp(str) == [url |-> str[3], sessionToken |-> str[5]]

\* an entry of the cache store: the value, its expiry, and for the record the
\* time of the Set that wrote it and the payload that Set was given
NoEntry == [val |-> EmptyString, exp |-> 0, at |-> 0, set |-> NoResp]

\* the store drops a key when its TTL has elapsed
CacheLiveAtExpiry(k) == cache[k].val # EmptyString /\ now <= cache[k].exp
CacheLive(k) == cache[k].val # EmptyString /\ now < cache[k].exp

\* rds.GetCtx: the value, "" when the key does not exist
GetCtx(k) == IF CacheLive(k) THEN cache[k].val ELSE EmptyString

\* DownloadCacheMapper.Get
CacheGet(id) ==
    LET cachedData == GetCtx(buildCacheKey(id)) IN
    CASE ~cacheUp -> [err |-> "store error", resp |-> NoResp]
      [] cacheUp /\ cachedData = EmptyString -> [err |-> "cache miss", resp |-> NoResp]
      [] cacheUp /\ cachedData # EmptyString /\ ~UnmarshalRespOk(cachedData) ->
            [err |-> "unmarshal cached data failed", resp |-> NoResp]
      [] OTHER -> [err |-> "nil", resp |-> UnmarshalResp(cachedData)]

\* DownloadCacheMapper.Set: SetexCtx(key, json, downloadEvaluateCacheExpire)
CacheSetErr == IF cacheUp THEN "nil" ELSE "store error"
CacheSet(id, P) ==
    IF cacheUp
    THEN [cache EXCEPT ![buildCacheKey(id)] =
            [val |-> MarshalResp(P), exp |-> now + downloadEvaluateCacheExpire,
             at |-> now, set |-> P]]
    ELSE cache

\* DownloadCacheMapper.Delete: DelCtx(key)
CacheDelete(id) ==
    IF cacheUp THEN [cache EXCEPT ![buildCacheKey(id)] = NoEntry] ELSE cache

\* the payloads the mapper is called with
CachePayloads ==
    {[url |-> <<"url1">>, sessionToken |-> <<"tok1">>],
     [url |-> <<"url2">>, sessionToken |-> <<"tok2">>]}
NoGot == [id |-> <<>>, at |-> 0, err |-> None, resp |-> NoResp]

\* a caller of the mapper: Set, Get, Delete
CacheSetOp(id, P) ==
    /\ cache' = CacheSet(id, P)
    /\ UNCHANGED <<now, evalVars, homeworkVars, cacheUp, got, dl, breq, getRes>>

CacheGetOp(id) ==
    /\ got' = [id |-> id, at |-> now, err |-> CacheGet(id).err,
               resp |-> CacheGet(id).resp]
    /\ UNCHANGED <<now, evalVars, homeworkVars, cache, cacheUp, dl, breq, getRes>>

CacheDeleteOp(id) ==
    /\ cache[buildCacheKey(id)] # NoEntry
    /\ cache' = CacheDelete(id)
    /\ UNCHANGED <<now, evalVars, homeworkVars, cacheUp, got, dl, breq, getRes>>

\* time passes, half a TTL at a time
CacheClock ==
    /\ hops < MaxCacheHops
    /\ hops' = hops + 1
    /\ now' = now + downloadEvaluateCacheExpire \div 2
    /\ UNCHANGED <<evalVars, storeVars, storeUp, outages, pollerVars, downloadVars>>

\* the cache store stops answering, and answers again
CacheFail ==
    /\ cacheUp
    /\ cacheUp' = FALSE
    /\ UNCHANGED <<now, evalVars, homeworkVars, cache, got, dl, breq, getRes>>

CacheRecover ==
    /\ ~cacheUp
    /\ cacheUp' = TRUE
    /\ UNCHANGED <<now, evalVars, homeworkVars, cache, got, dl, breq, getRes>>

\* the id lists a batch request can carry: strings of up to MaxIdLen bytes
IdBytes == {49, Underscore, 97}
IdStrings == UNION {[1..n -> IdBytes] : n \in 0..MaxIdLen}
IdLists == UNION {[1..n -> IdStrings] : n \in 0..MaxIds}
BatchCalls == {1, 2}
NoBatch == [ids |-> <<>>, after |-> <<>>, key |-> <<>>, done |-> FALSE]

\* DownloadSubmissionEvaluate up to the cache key, for request r
KeyRequest(r, ids) ==
    /\ ~breq[r].done
    /\ breq' = [breq EXCEPT ![r] = [ids |-> ids, after |-> RequestAfterKey(ids),
                                    key |-> CacheKeyOf(ids), done |-> TRUE]]
    /\ UNCHANGED <<now, evalVars, homeworkVars, cache, cacheUp, got, dl, getRes>>

(* ------------------------ EssayEvaluate (one shot) --------------------- *)
\* entry checks of EssayEvaluate: authentication, the user record, the
\* remaining count
EvalBegin(c) ==
    /\ pc[c] = "start"
    /\ \E userId \in {"", "ghost", "u1"} :
         IF userId = ""
         THEN /\ ret' = [ret EXCEPT ![c] = "ErrNotAuthentication"]
              /\ pc' = [pc EXCEPT ![c] = "done"]
         ELSE IF userId = "ghost"
         THEN /\ ret' = [ret EXCEPT ![c] = "ErrNotFound"]
              /\ pc' = [pc EXCEPT ![c] = "done"]
         ELSE IF count <= 0
         THEN /\ ret' = [ret EXCEPT ![c] = "ErrInSufficientCount"]
              /\ pc' = [pc EXCEPT ![c] = "done"]
         ELSE /\ pc' = [pc EXCEPT ![c] = "evlock"]
              /\ ret' = ret
    /\ UNCHANGED <<now, lockVars, relayVars, sinkVars, logs, count>>
    /\ UNCHANGED <<homeworkVars, downloadVars>>

\* distributedLock.Lock(); on failure ErrOneCall
EvalLock(c) ==
    /\ pc[c] = "evlock"
    /\ Lock(c)
    /\ IF LockOk(c)
       THEN /\ pc' = [pc EXCEPT ![c] = "remote"]
            /\ ret' = ret
       ELSE /\ pc' = [pc EXCEPT ![c] = "done"]
            /\ ret' = [ret EXCEPT ![c] = "ErrOneCall"]
    /\ UNCHANGED <<now, unlockRes, relayVars, sinkVars, logs, count>>
    /\ UNCHANGED <<homeworkVars, downloadVars>>

\* client.Evaluate returns: with an error the function returns ErrCall at
\* once, the mutex is left as it is; otherwise the response carries a code
RemoteOutcomes == {"error", "code", "ok"}
EvalRemote(c) ==
    /\ pc[c] = "remote"
    /\ \E out \in RemoteOutcomes :
         /\ io' = [io EXCEPT ![c].remote = out]
         /\ IF out = "error"
            THEN /\ ret' = [ret EXCEPT ![c] = "ErrCall"]
                 /\ pc' = [pc EXCEPT ![c] = "done"]
            ELSE /\ pc' = [pc EXCEPT ![c] = "evunlock"]
                 /\ ret' = ret
    /\ UNCHANGED <<now, lockVars, cancelled, emitted, down, downClosed, prod,
                   finalResult, sinkVars, logs, count>>
    /\ UNCHANGED <<homeworkVars, downloadVars>>

\* distributedLock.Unlock(); its error and Expired() are logged, and the
\* function goes on
EvalUnlock(c) ==
    /\ pc[c] = "evunlock"
    /\ Unlock(c)
    /\ io' = [io EXCEPT ![c].lost = UnlockResult(c) # "ok" \/ Expired(c)]
    /\ pc' = [pc EXCEPT ![c] = "record"]
    /\ UNCHANGED <<now, lockRes, ret, cancelled, emitted, down, downClosed, prod,
                   finalResult, sinkVars, logs, count>>
    /\ UNCHANGED <<homeworkVars, downloadVars>>

\* the log record: InsertErr and ErrCall when the code is not 0, Insert
\* otherwise, ErrCall when Insert fails
EvalRecord(c) ==
    /\ pc[c] = "record"
    /\ \E ok \in BOOLEAN :
         IF io[c].remote = "code"
         THEN /\ io' = [io EXCEPT ![c].insert = "InsertErr"]
              /\ ret' = [ret EXCEPT ![c] = "ErrCall"]
              /\ pc' = [pc EXCEPT ![c] = "done"]
              /\ logs' = logs
         ELSE IF ok
         THEN /\ logs' = Append(logs, [userId |-> "u1", response |-> Marshal("X1"),
                                       status |-> 0, call |-> c])
              /\ io' = [io EXCEPT ![c].insert = "ok"]
              /\ pc' = [pc EXCEPT ![c] = "evcount"]
              /\ ret' = ret
         ELSE /\ io' = [io EXCEPT ![c].insert = "failed"]
              /\ ret' = [ret EXCEPT ![c] = "ErrCall"]
              /\ pc' = [pc EXCEPT ![c] = "done"]
              /\ logs' = logs
    /\ UNCHANGED <<now, lockVars, cancelled, emitted, down, downClosed, prod,
                   finalResult, sinkVars, count>>
    /\ UNCHANGED <<homeworkVars, downloadVars>>

\* s.UserMapper.UpdateCount(ctx, userId, -1), then the response
EvalCount(c) ==
    /\ pc[c] = "evcount"
    /\ \E ok \in BOOLEAN :
         IF ok
         THEN /\ count' = count - 1
              /\ io' = [io EXCEPT ![c].count = "ok"]
              /\ ret' = [ret EXCEPT ![c] = "response"]
         ELSE /\ count' = count
              /\ io' = [io EXCEPT ![c].count = "failed"]
              /\ ret' = [ret EXCEPT ![c] = "ErrCall"]
    /\ pc' = [pc EXCEPT ![c] = "done"]
    /\ UNCHANGED <<now, lockVars, cancelled, emitted, down, downClosed, prod,
                   finalResult, sinkVars, logs>>
    /\ UNCHANGED <<homeworkVars, downloadVars>>

\* the clock while EssayEvaluate calls are followed
EvalTick ==
    /\ now < EvalPeriods * WatchdogPeriod
    /\ Tick

(* ------------------------- download of results ------------------------- *)
\* the users that call; UserMapper.FindOne gives the user and its Username
Users == {"u1", "u2"}
Username(u) == <<"name", u>>
\* the teacher the submissions belong to (submission.TeacherID)
TeacherID(s) == "u1"
IsTeacher(u) == u = "u1"
Teachers == {u \in Users : IsTeacher(u)}

\* LogMapper.FindOne and SubmissionMapper.FindOne by the hex id
LogsOf(id) == {i \in DOMAIN logs : HexOfLog(i) = id}
SubsOf(id) == {s \in DOMAIN subs : HexOfSub(s) = id}

\* the result after the modification of EvaluateModify and
\* ModifySubmissionEvaluate: the comments and scores of the request are
\* written into the unmarshalled result, which is marshalled again
Modified(response) == <<response[1], "X1m">>

\* client.EssayPolish: a transport error, a code other than 200, url or
\* sessionToken of the wrong type, or the descriptor of the artifact that
\* was generated from essay_list and user_id
PolishOutcomes == {"ok", "error", "code", "fields"}
Descriptor(essayList, username) ==
    [url |-> <<"signedUrl", essayList, username>>, sessionToken |-> <<"sessionToken">>]

\* what a download call returns: the error, the descriptor, and whether the
\* descriptor was generated by this call (and is then handed to the cache)
Returned(err, resp, fresh) == [err |-> err, resp |-> resp, fresh |-> fresh]

\* err == nil of DownloadCacheMapper.Get
CacheHitUnlessMiss(g) == g.err # "cache miss"
CacheHit(g) == g.err = "nil"

\* EssayService.DownloadEvaluate, up to the cache write
DownloadEvaluateResult(u, id, po) ==
    LET g == CacheGet(id)
        found == LogsOf(id)
        l == logs[CHOOSE i \in found : TRUE]
    IN  IF u = "" THEN Returned("ErrNotAuthentication", NoResp, FALSE)
        ELSE IF CacheHit(g) THEN Returned(None, g.resp, FALSE)
        ELSE IF found = {} THEN Returned("ErrNotFound", NoResp, FALSE)
        ELSE IF l.userId # u THEN Returned("ErrNotFound", NoResp, FALSE)
        ELSE IF l.response = EmptyString \/ ~UnmarshalOk(l.response)
             THEN Returned("ErrCall", NoResp, FALSE)
        ELSE IF po # "ok" THEN Returned("ErrCall", NoResp, FALSE)
        ELSE Returned(None, Descriptor(<<l.response>>, Username(u)), TRUE)

\* the responses of the submissions that are found and can be unmarshalled,
\* in the order of the request
RECURSIVE EssayList(_)
EssayList(ids) ==
    IF ids = <<>> THEN <<>>
    ELSE LET found == SubsOf(Head(ids))
             d == subs[CHOOSE s \in found : TRUE]
         IN  IF found # {} /\ d.response # EmptyString /\ UnmarshalOk(d.response)
             THEN <<d.response>> \o EssayList(Tail(ids))
             ELSE EssayList(Tail(ids))

\* HomeworkService.DownloadSubmissionEvaluate, up to the cache write
DownloadSubmissionEvaluateResult(u, ids, po) ==
    LET g == CacheGet(CacheKeyOf(ids))
        submissions == {i \in DOMAIN ids : SubsOf(ids[i]) # {}}
    IN  IF u = "" THEN Returned("ErrNotAuthentication", NoResp, FALSE)
        ELSE IF CacheHit(g) THEN Returned(None, g.resp, FALSE)
        ELSE IF submissions = {} THEN Returned("ErrNotFound", NoResp, FALSE)
        ELSE IF EssayList(ids) = <<>> THEN Returned("ErrCall", NoResp, FALSE)
        ELSE IF po # "ok" THEN Returned("ErrCall", NoResp, FALSE)
        ELSE Returned(None, Descriptor(EssayList(ids), Username(u)), TRUE)

\* the record of a download call: who called what, what the cache answered,
\* what was stored at the time, and what was returned
NoCall ==
    [op |-> None, user |-> "", ids |-> <<>>, getErr |-> None,
     po |-> None, setErr |-> None, stored |-> <<>>, owner |-> FALSE,
     err |-> None, resp |-> NoResp]

DownloadEvaluate(u, id, po) ==
    LET r == DownloadEvaluateResult(u, id, po)
        okAsWell == DownloadEvaluateResult(u, id, "ok")
    IN  /\ po = "ok" \/ okAsWell.fresh
        /\ cache' = IF r.fresh THEN CacheSet(id, r.resp) ELSE cache
        /\ dl' = [op |-> "DownloadEvaluate", user |-> u, ids |-> <<id>>,
                  getErr |-> CacheGet(id).err,
                  po |-> IF okAsWell.fresh THEN po ELSE None,
                  setErr |-> IF r.fresh THEN CacheSetErr ELSE None,
                  stored |-> [i \in 1..Cardinality(LogsOf(id)) |->
                                logs[CHOOSE j \in LogsOf(id) : TRUE].response],
                  owner |-> \E i \in LogsOf(id) : logs[i].userId = u,
                  err |-> r.err, resp |-> r.resp]
        /\ UNCHANGED <<now, evalVars, homeworkVars, cacheUp, got, breq, getRes>>

DownloadSubmissionEvaluate(u, ids, po) ==
    LET r == DownloadSubmissionEvaluateResult(u, ids, po)
        okAsWell == DownloadSubmissionEvaluateResult(u, ids, "ok")
    IN  /\ po = "ok" \/ okAsWell.fresh
        /\ cache' = IF r.fresh THEN CacheSet(CacheKeyOf(ids), r.resp) ELSE cache
        /\ dl' = [op |-> "DownloadSubmissionEvaluate", user |-> u, ids |-> ids,
                  getErr |-> CacheGet(CacheKeyOf(ids)).err,
                  po |-> IF okAsWell.fresh THEN po ELSE None,
                  setErr |-> IF r.fresh THEN CacheSetErr ELSE None,
                  stored |-> EssayList(ids),
                  owner |-> TRUE,
                  err |-> r.err, resp |-> r.resp]
        /\ UNCHANGED <<now, evalVars, homeworkVars, cacheUp, got, breq, getRes>>

\* EssayService.EvaluateModify: the owner's record gets the modified result
\* and status 1
EvaluateModify(u, id) ==
    /\ u # ""
    /\ \E i \in LogsOf(id) :
          /\ logs[i].userId = u
          /\ logs[i].response # EmptyString /\ UnmarshalOk(logs[i].response)
          /\ logs' = [logs EXCEPT ![i].response = Modified(@), ![i].status = 1]
    /\ UNCHANGED <<now, kv, lk, pc, ret, cancelled, io, emitted, down, downClosed,
                   prod, finalResult, sink, sent, recvd, lockRes, unlockRes, count>>
    /\ UNCHANGED <<homeworkVars, downloadVars>>

\* HomeworkService.ModifySubmissionEvaluate: the teacher's submission gets
\* the modified result and status 3
ModifySubmissionEvaluate(u, id) ==
    /\ u # "" /\ IsTeacher(u)
    /\ storeUp
    /\ \E s \in SubsOf(id) :
          /\ TeacherID(s) = u
          /\ subs[s].response # EmptyString /\ UnmarshalOk(subs[s].response)
          /\ Update([subs[s] EXCEPT !.status = StatusModified,
                                    !.response = Modified(@)])
    /\ UNCHANGED <<now, evalVars, downloadVars, quota, charged, storeUp, hops,
                   outages, pollerVars>>

\* a test that takes a modified result for a graded one
IsCompletedOrModified(d) == d.status \in {StatusCompleted, StatusModified}
\* the negation of submission.Status != consts.StatusCompleted
IsCompleted(d) == d.status = StatusCompleted

\* what GetSubmissionEvaluate returns: the error, whether the response
\* pointer is nil, and the Response of the response
NoGetRes ==
    [user |-> "", id |-> <<>>, status |-> 0 - 1, err |-> None, nil |-> TRUE,
     response |-> EmptyString]

\* HomeworkService.GetSubmissionEvaluate
GetSubmissionEvaluateResult(u, id) ==
    LET call == [NoGetRes EXCEPT !.user = u, !.id = id] IN
    IF u = "" THEN [call EXCEPT !.err = "ErrNotAuthentication"]
    ELSE IF ~storeUp \/ SubsOf(id) = {} THEN [call EXCEPT !.err = "ErrGetHomework"]
    ELSE LET submission == subs[CHOOSE s \in SubsOf(id) : TRUE] IN
         IF ~IsCompleted(submission)
         THEN [call EXCEPT !.status = submission.status,
                           !.err = "ErrHomeworkNotGrade"]
         ELSE [call EXCEPT !.status = submission.status, !.nil = FALSE,
                           !.response = submission.response]

GetSubmissionEvaluate(u, id) ==
    /\ getRes' = GetSubmissionEvaluateResult(u, id)
    /\ UNCHANGED <<now, evalVars, homeworkVars, cache, cacheUp, got, dl, breq>>

\* the value of a key of the cache store is replaced by data that is not the
\* json of a descriptor
CacheCorrupt(id) ==
    /\ cacheUp
    /\ CacheLive(buildCacheKey(id))
    /\ cache' = [cache EXCEPT ![buildCacheKey(id)].val = CorruptData]
    /\ UNCHANGED <<now, evalVars, homeworkVars, cacheUp, got, dl, breq, getRes>>

(* --------------------------- specification ---------------------------- *)
\* the state of the calls, the poller and the caches when the service starts
InitService ==
    /\ now = 0
    /\ kv = [k \in Keys |-> [val |-> Absent, exp |-> 0]]
    /\ lk = [c \in Calls |-> NoLease]
    /\ pc = [c \in Calls |-> "start"]
    /\ ret = [c \in Calls |-> None]
    /\ cancelled = [c \in Calls |-> NotCancelled]
    /\ io = [c \in Calls |-> NoIO]
    /\ emitted = [c \in Calls |-> <<>>]
    /\ down = [c \in Calls |-> <<>>]
    /\ downClosed = [c \in Calls |-> FALSE]
    /\ prod = [c \in Calls |-> None]
    /\ finalResult = [c \in Calls |-> EmptyString]
    /\ sink = [c \in Calls |-> <<>>]
    /\ sent = [c \in Calls |-> <<>>]
    /\ recvd = [c \in Calls |-> <<>>]
    /\ lockRes = [c \in Calls |-> None]
    /\ unlockRes = [c \in Calls |-> None]
    /\ storeUp = TRUE
    /\ hops = 0
    /\ outages = 0
    /\ started = {}
    /\ ppc = [p \in Pollers |-> "off"]
    /\ tickDue = [p \in Pollers |-> FALSE]
    /\ queue = [p \in Pollers |-> <<>>]
    /\ cur = [p \in Pollers |-> NoDoc]
    /\ ex = [p \in Pollers |-> NoEx]
    /\ tp = [p \in Pollers |-> NoPass]
    /\ cache = [k \in {buildCacheKey(id) : id \in CacheIds} |-> NoEntry]
    /\ cacheUp = TRUE
    /\ got = NoGot
    /\ dl = NoCall
    /\ breq = [r \in BatchCalls |-> NoBatch]
    /\ getRes = NoGetRes

\* a service that starts on empty collections
Init ==
    /\ InitService
    /\ logs = <<>>
    /\ count = InitCount
    /\ subs = <<>>
    /\ hist = [s \in SubIds |-> <<>>]
    /\ quota = InitQuota
    /\ charged = [s \in SubIds |-> 0]

\* a service that starts on collections that hold results: one evaluation
\* of user u1 was recorded, the first submission was graded and the others
\* were submitted
FirstGraded(s) ==
    IF s \in FirstSub
    THEN [NewSubmission(s, 0) EXCEPT
             !.status = StatusCompleted, !.response = Marshal("X1"),
             !.gradeResult = SplitFirst(AllWithTotal(Marshal("X1")))]
    ELSE NewSubmission(s, 0)

InitGraded ==
    /\ InitService
    /\ logs = <<[userId |-> "u1", response |-> Marshal("X1"), status |-> 0,
                 call |-> 1]>>
    /\ count = InitCount - 1
    /\ subs = [s \in SubIds |-> FirstGraded(s)]
    /\ hist = [s \in SubIds |->
                 IF s \in FirstSub
                 THEN <<StatusInitialized, StatusGrading, StatusCompleted>>
                 ELSE <<StatusInitialized>>]
    /\ quota = InitQuota - 1
    /\ charged = [s \in SubIds |-> IF s \in FirstSub THEN 1 ELSE 0]

Next ==
    \/ \E c \in Calls : Begin(c)
    \/ \E c \in Calls : TryLock(c)
    \/ \E c \in Calls : ProducerSend(c)
    \/ \E c \in Calls : ProducerReturn(c)
    \/ \E c \in Calls : Cancel(c)
    \/ \E c \in Calls : ConsumerRecv(c)
    \/ \E c \in Calls : ConsumerClosed(c)
    \/ \E c \in Calls : LogInsert(c)
    \/ \E c \in Calls : UpdateCount(c)
    \/ \E c \in Calls : DeferredUnlock(c)
    \/ \E c \in Calls : SinkRead(c)

Spec == Init /\ [][Next]_vars

\* the goroutine of a call that is past its Lock() goes on running
RelayStep(c) ==
    \/ ConsumerRecv(c) \/ ConsumerClosed(c) \/ LogInsert(c) \/ UpdateCount(c)
    \/ DeferredUnlock(c)

SpecFair == Spec /\ \A c \in Calls : WF_vars(RelayStep(c))

\* the producer goroutine of a call whose context is cancelled goes on
\* running: the request is bound to ctx and the send selects on ctx.Done()
CancelledProducer(c) ==
    cancelled[c].fired /\ (ProducerSend(c) \/ ProducerReturn(c))

SpecLeak == SpecFair /\ \A c \in Calls : WF_vars(CancelledProducer(c))

\* the poller on one submission, the teacher who modifies its result, and
\* the calls that read it
NextGet ==
    \/ \E s \in FirstSub : SubmitHomework(s)
    \/ \E p \in BootPoller :
          \/ StartGrader(p) \/ PollerTick(p) \/ ProcBegin(p) \/ MarkGrading(p)
          \/ GradeDone(p) \/ Charge(p) \/ Save(p) \/ MarkSubmissionFailed(p)
          \/ ProcReturn(p) \/ TimeoutFind(p) \/ TimeoutReturn(p)
    \/ Advance(TimerInterval)
    \/ \E u \in Users, s \in FirstSub : ModifySubmissionEvaluate(u, HexOfSub(s))
    \/ \E u \in Users \cup {""}, s \in FirstSub : GetSubmissionEvaluate(u, HexOfSub(s))

SpecGet == Init /\ [][NextGet]_vars

\* the same calls of a user who has one count left
SpecLastCount == InitGraded /\ [][Next]_vars

\* one EssayEvaluateStream call and the poller loop on one submission, on a
\* store that answers
FirstCall == {c \in Calls : \A d \in Calls : c <= d}
NextRelays ==
    \/ \E c \in FirstCall :
          \/ Begin(c) \/ TryLock(c) \/ ProducerSend(c) \/ ProducerReturn(c)
          \/ ConsumerRecv(c) \/ ConsumerClosed(c) \/ LogInsert(c)
          \/ UpdateCount(c) \/ DeferredUnlock(c) \/ SinkRead(c)
    \/ \E s \in FirstSub : SubmitHomework(s)
    \/ \E p \in BootPoller :
          \/ StartGrader(p) \/ PollerTick(p) \/ ProcBegin(p) \/ MarkGrading(p)
          \/ GradeDone(p) \/ Charge(p) \/ Save(p) \/ MarkSubmissionFailed(p)
          \/ ProcReturn(p) \/ TimeoutFind(p) \/ TimeoutReturn(p)
    \/ Advance(TimerInterval)

SpecRelays == Init /\ [][NextRelays]_vars

\* the lease lock alone, under its clients, the renewal loops and the clock
NextLock ==
    \/ \E c \in Calls : LockerLock(c)
    \/ \E c \in Calls : LockerUnlock(c)
    \/ \E c \in Calls : WatchdogTurn(c)
    \/ Tick

SpecLock == Init /\ [][NextLock]_vars

\* concurrent EssayEvaluate calls of the user, the renewal loops and the clock
NextEvaluate ==
    \/ \E c \in Calls : EvalBegin(c)
    \/ \E c \in Calls : EvalLock(c)
    \/ \E c \in Calls : EvalRemote(c)
    \/ \E c \in Calls : EvalUnlock(c)
    \/ \E c \in Calls : EvalRecord(c)
    \/ \E c \in Calls : EvalCount(c)
    \/ \E c \in Calls : WatchdogTurn(c)
    \/ EvalTick

SpecEvaluate == Init /\ [][NextEvaluate]_vars

\* the poller loop of one service process, the students and the store
NextPoller ==
    \/ \E s \in SubIds : SubmitHomework(s)
    \/ \E p \in BootPoller : StartGrader(p)
    \/ \E p \in Pollers : PollerTick(p)
    \/ \E p \in Pollers : ProcBegin(p)
    \/ \E p \in Pollers : MarkGrading(p)
    \/ \E p \in Pollers : GradeDone(p)
    \/ \E p \in Pollers : Charge(p)
    \/ \E p \in Pollers : Save(p)
    \/ \E p \in Pollers : MarkSubmissionFailed(p)
    \/ \E p \in Pollers : TimeoutFind(p)
    \/ \E p \in Pollers : TimeoutReset(p)
    \/ \E p \in Pollers : TimeoutReturn(p)
    \/ \E p \in Pollers : ProcReturn(p)
    \/ \E p \in Pollers : Restart(p)
    \/ \E d \in {TimerInterval, TimeoutDuration} : Advance(d)
    \/ StoreFail
    \/ StoreRecover

SpecPoller == Init /\ [][NextPoller]_vars

\* the poller loop on a store that answers, with a ticker that keeps firing
\* and a process that is started again after a crash; every step of the
\* loop that can be taken is taken in the end, students need not submit
PollerStep(p) ==
    \/ PollerTick(p) \/ ProcBegin(p) \/ MarkGrading(p) \/ GradeDone(p)
    \/ Charge(p) \/ Save(p) \/ MarkSubmissionFailed(p) \/ ProcReturn(p)
    \/ TimeoutFind(p) \/ TimeoutReset(p) \/ TimeoutReturn(p)

NextHeal ==
    \/ \E s \in SubIds : SubmitHomework(s)
    \/ \E p \in BootPoller : StartGrader(p)
    \/ \E p \in BootPoller : PollerStep(p)
    \/ \E p \in BootPoller : Restart(p)
    \/ \E d \in {TimerInterval, TimeoutDuration} : Advance(d)
    \/ TickerFires

SpecHeal ==
    /\ Init /\ [][NextHeal]_vars
    /\ \A p \in BootPoller :
          WF_vars(StartGrader(p)) /\ WF_vars(PollerStep(p)) /\ WF_vars(Restart(p))
    /\ WF_vars(\E d \in {TimerInterval, TimeoutDuration} : Advance(d))
    /\ WF_vars(TickerFires)

\* StartGrader called more than once on the service: every call starts a
\* loop
NextGraders ==
    \/ \E s \in FirstSub : SubmitHomework(s)
    \/ \E p \in Pollers : StartGrader(p)
    \/ \E p \in Pollers : PollerTick(p)
    \/ \E p \in Pollers : ProcBegin(p)
    \/ \E p \in Pollers : MarkGrading(p)
    \/ \E p \in Pollers : GradeDone(p)
    \/ \E p \in Pollers : Charge(p)
    \/ \E p \in Pollers : Save(p)
    \/ \E p \in Pollers : MarkSubmissionFailed(p)
    \/ \E p \in Pollers : ProcReturn(p)
    \/ \E p \in Pollers : TimeoutFind(p)
    \/ \E p \in Pollers : TimeoutReset(p)
    \/ \E p \in Pollers : TimeoutReturn(p)
    \/ \E d \in {TimerInterval, TimeoutDuration} : Advance(d)

SpecGraders == Init /\ [][NextGraders]_vars

\* the callers of the cache mapper, and time
NextCache ==
    \/ \E id \in DownloadIds, P \in CachePayloads : CacheSetOp(id, P)
    \/ \E id \in DownloadIds : CacheGetOp(id)
    \/ \E id \in DownloadIds : CacheDeleteOp(id)
    \/ CacheClock
    \/ CacheFail
    \/ CacheRecover

SpecCache == Init /\ [][NextCache]_vars

\* batch requests: the computation of the cache key
NextKey == \E r \in BatchCalls, ids \in IdLists : KeyRequest(r, ids)

SpecKey == Init /\ [][NextKey]_vars

\* downloads of stored results while the cache store fails, answers again,
\* or holds data that is not a descriptor
NextFailOpen ==
    \/ \E u \in Users, id \in DownloadIds, po \in PolishOutcomes :
          DownloadEvaluate(u, id, po)
    \/ \E u \in Teachers, ids \in BatchRequests, po \in PolishOutcomes :
          DownloadSubmissionEvaluate(u, ids, po)
    \/ \E id \in DownloadIds : CacheCorrupt(id)
    \/ CacheFail
    \/ CacheRecover

SpecFailOpen == InitGraded /\ [][NextFailOpen]_vars

\* downloads and modifications of an evaluation, the cache store and time
NextDownload ==
    \/ \E u \in Users, id \in DownloadIds, po \in PolishOutcomes :
          DownloadEvaluate(u, id, po)
    \/ \E u \in Users, id \in DownloadIds : EvaluateModify(u, id)
    \/ \E id \in DownloadIds : CacheCorrupt(id)
    \/ CacheClock
    \/ CacheFail
    \/ CacheRecover

SpecDownload == InitGraded /\ [][NextDownload]_vars

\* downloads and modifications of submissions, and time
NextBatch ==
    \/ \E u \in Teachers, ids \in BatchRequests, po \in PolishOutcomes :
          DownloadSubmissionEvaluate(u, ids, po)
    \/ \E u \in Users, s \in SubIds : ModifySubmissionEvaluate(u, HexOfSub(s))
    \/ CacheClock

SpecBatch == InitGraded /\ [][NextBatch]_vars

(* ------------------------------- claims ------------------------------- *)
\* a step in which call c gets the result of its Lock() / of its Unlock()
LockStep(c) == lockRes[c] = None /\ lockRes'[c] # None
UnlockStep(c) == unlockRes[c] = None /\ unlockRes'[c] # None

\* the calls whose lease, as their own mutex last set it, has not run out
LiveLeases == {c \in Calls : lk[c].held /\ now < lk[c].exp}

\* C1: mutual exclusion of the lease lock.  At no instant two calls hold a
\* lease of the key that has not run out; a Lock() on a live key returns
\* AlreadyHeld and changes nothing in the store, a Lock() on a key that is
\* absent or has fully expired succeeds.
C1_MutualExclusion ==
    /\ [](Cardinality(LiveLeases) <= 1)
    /\ [][\A c \in Calls : LockStep(c) =>
            IF Live(KeyOf(c))
            THEN lockRes'[c] = "AlreadyHeld" /\ kv' = kv
            ELSE lockRes'[c] = "ok" /\ Stored(KeyOf(c))' = TokenOf(c)]_vars

\* a call holds the live lease and the Lock() of another call was rejected
C1_Witness ==
    \E c, d \in Calls :
        /\ c # d
        /\ lk[c].held /\ Stored(KeyOf(c)) = TokenOf(c)
        /\ lockRes[d] = "AlreadyHeld"

\* C2: ownership integrity of Unlock().  An Unlock() made when the stored
\* value differs from the caller's token (another holder, or no key) returns
\* NotOwner and leaves the key, its value and its TTL unchanged.
C2_UnlockOwnership ==
    [][\A c \in Calls :
          (UnlockStep(c) /\ Stored(KeyOf(c)) # TokenOf(c)) =>
              (unlockRes'[c] = "NotOwner" /\ kv' = kv)]_vars

\* a call whose lease ran out got NotOwner while another call holds the key
C2_Witness ==
    \E c, d \in Calls :
        /\ c # d
        /\ unlockRes[c] = "NotOwner"
        /\ lockRes[c] = "ok"
        /\ Stored(KeyOf(c)) = TokenOf(d)

\* C3: renewal bound.  The key is not held under the token of a lease at any
\* time later than its acquisition plus maxTTL.
C3_RenewalBound ==
    \A c \in Calls :
        (lockRes[c] = "ok" /\ Stored(KeyOf(c)) = TokenOf(c)) =>
            now <= lk[c].at + MaxTTL

\* helpers on sequences of events and of messages
Front(q) == SubSeq(q, 1, Len(q) - 1)
RECURSIVE IsSubSeq(_, _)
IsSubSeq(a, b) ==
    IF a = <<>> THEN TRUE
    ELSE IF b = <<>> THEN FALSE
    ELSE IF Head(a) = Head(b) THEN IsSubSeq(Tail(a), Tail(b))
    ELSE IsSubSeq(a, Tail(b))

\* the part messages of a sequence of progress events, in their order
Parts(q) == [i \in 1..Len(q) |-> StreamMessage(STPart, q[i].message, q[i].data)]

\* n progress events followed by complete(X), X an object
ProgressThenComplete(q) ==
    /\ Len(q) >= 1
    /\ Last(q).type = "complete" /\ IsObject(Last(q).data)
    /\ \A i \in 1..(Len(q) - 1) : q[i].type = "progress"

\* n progress events followed by an error event
ProgressThenError(q) ==
    /\ Len(q) >= 1
    /\ Last(q).type = "error"
    /\ \A i \in 1..(Len(q) - 1) : q[i].type = "progress"

\* the completion message of call c for the payload x
CompletionOf(c, x) ==
    StreamMessage(STComplete, "grading finished", EssayEvaluateResp(c, Marshal(x)))

RejectedMessage == StreamMessage(STError, "a grading is already in progress", None)

NoPersistenceFailure(c) == io[c].insert # "failed" /\ io[c].count # "failed"

\* C4: rejected concurrent evaluation.  A call whose Lock() finds the key
\* held sends exactly the one error message "a grading is already in
\* progress", which the sink receives, and returns ErrOneCall at once; it
\* starts no producer, inserts no log record, leaves the quota, the store
\* and the holder's lease as they are, and never calls Unlock().
C4_RejectedConcurrent ==
    /\ [][\A c \in Calls :
            (pc[c] = "lock" /\ LockStep(c) /\ Live(KeyOf(c))) =>
                /\ ret'[c] = "ErrOneCall" /\ pc'[c] = "done"
                /\ sent'[c] = <<RejectedMessage>> /\ recvd'[c] = <<RejectedMessage>>
                /\ prod'[c] = None
                /\ logs' = logs /\ count' = count
                /\ kv' = kv /\ lk' = lk]_vars
    /\ [](\A c \in Calls :
            ret[c] = "ErrOneCall" =>
                /\ pc[c] = "done" /\ sent[c] = <<RejectedMessage>>
                /\ prod[c] = None /\ emitted[c] = <<>>
                /\ io[c] = NoIO /\ unlockRes[c] = None)

\* a call was rejected while the other call holds the lease in its relay
C4_Witness ==
    \E c, d \in Calls :
        /\ c # d
        /\ ret[d] = "ErrOneCall"
        /\ pc[c] = "relay" /\ Stored(KeyOf(c)) = TokenOf(c)

EmptyOutcome(c) ==
    /\ pc[c] = "done" /\ lockRes[c] = "ok"
    /\ \A i \in 1..Len(emitted[c]) : emitted[c][i].type \notin {"complete", "error"}

\* the call consumed an explicit error event
ErrorOutcome(c) == pc[c] = "done" /\ ProgressThenError(emitted[c])

\* C7: empty-stream classification, synchronous relay.  The failure of a
\* call whose channel closed without complete or error differs from the
\* failure of a call that consumed an error event, in the error returned
\* and in the message sent to the sink.
C7_EmptyResultDistinct ==
    \A c, d \in Calls :
        (EmptyOutcome(c) /\ ErrorOutcome(d)) =>
            /\ ret[c] # ret[d]
            /\ Last(sent[c]) # Last(sent[d])

\* C8: relay cancellation.  A call whose context was cancelled while it was
\* in the read loop forwards no further part message and returns a
\* cancellation error, which is neither the error of the empty result and
\* of the downstream error (ErrCall) nor success.
C8_Cancellation ==
    \A c \in Calls :
        (pc[c] = "done" /\ cancelled[c].fired /\ cancelled[c].inRelay) =>
            /\ ret[c] \notin {"ErrCall", "nil"}
            /\ \A i \in (cancelled[c].sentLen + 1)..Len(sent[c]) :
                   sent[c][i].type # STPart

\* the run of processOneSubmission by p has just returned, and it was the
\* end-to-end scenario: the submission came fresh from SubmitHomework, the
\* teacher had quota, OCR succeeded, the grading stream was progress,
\* progress, complete with an evaluation, and no call to the store failed
HappyRun(p) ==
    /\ ppc[p] = "ret"
    /\ ex[p].fresh
    /\ ex[p].quotaBefore >= 1
    /\ ex[p].ocr = "ok"
    /\ ex[p].stream = <<GradeProgress, GradeProgress, GradeComplete("X1")>>
    /\ ~ex[p].storeFailed

Graded(p) ==
    LET s == cur[p].id IN
    /\ hist[s] = <<StatusInitialized, StatusGrading, StatusCompleted>>
    /\ subs[s].status = StatusCompleted
    /\ subs[s].response = Marshal("X1")
    /\ subs[s].response # EmptyString
    /\ subs[s].gradeResult # EmptyString
    /\ charged[s] = 1
    /\ quota = ex[p].quotaBefore - 1

\* C9: end-to-end grading.  When the processing of a submission inserted by
\* SubmitHomework returns, and the teacher had quota of at least 1, OCR
\* succeeded, the grading stream was progress, progress, complete and all
\* writes succeeded, then the persisted status history of the submission is
\* INITIALIZED, GRADING, COMPLETED, its response and gradeResult are
\* populated, and the quota of the teacher is lower by exactly 1 than it was
\* when the processing began.
C9_EndToEnd ==
    [][\A p \in Pollers : (ppc[p] # "ret" /\ HappyRun(p)') => Graded(p)']_vars

C9_Witness ==
    \E p \in Pollers : HappyRun(p) /\ Graded(p) /\ ex[p].quotaBefore = InitQuota

\* the submissions a timeout pass at this moment has to reset
Overdue ==
    {s \in DOMAIN subs : /\ subs[s].status = StatusGrading
                          /\ now - subs[s].updateTime > TimeoutDuration}

\* p is at the end of its timeout pass
PassOver(p) == ppc[p] = "treset" /\ tp[p].list = <<>>

\* C10: timeout reset.  A timeout pass selects exactly the submissions that
\* are in GRADING with an updateTime older than 20 minutes at the time of
\* the pass; each of its writes sets the status of a selected submission to
\* INITIALIZED and leaves every other submission as it is; when the pass is
\* over and the store accepted its writes, the submissions it reset are
\* exactly the selected ones; a status becomes INITIALIZED only by such a
\* reset, so a submission that was reset is selected again only after it is
\* in GRADING again.
C10_TimeoutReset ==
    /\ [][\A p \in Pollers :
            (ppc[p] = "tfind" /\ ppc'[p] = "treset" /\ storeUp) =>
                tp'[p].selected = Overdue]_vars
    /\ [][\A p \in Pollers :
            (ppc[p] = "treset" /\ tp[p].list # <<>> /\ tp'[p].list # tp[p].list) =>
                LET s == Head(tp[p].list).id IN
                /\ s \in tp[p].selected
                /\ \A r \in DOMAIN subs : r # s => subs'[r] = subs[r]
                /\ IF storeUp
                   THEN subs'[s] = [subs[s] EXCEPT !.status = StatusInitialized,
                                                   !.updateTime = now]
                   ELSE subs'[s] = subs[s]]_vars
    /\ [][\A s \in DOMAIN subs :
            (subs[s].status # StatusInitialized
                /\ subs'[s].status = StatusInitialized) =>
                \E p \in Pollers : ppc[p] = "treset" /\ s \in tp[p].selected]_vars
    /\ [](\A p \in Pollers : PassOver(p) =>
            /\ tp[p].reset \subseteq tp[p].selected
            /\ ~tp[p].failed => tp[p].reset = tp[p].selected
            /\ \A s \in tp[p].reset : subs[s].status = StatusInitialized)

\* a pass is over that reset an overdue submission and left a submission
\* that is in GRADING within the 20 minutes as it was
C10_Witness ==
    \E p \in Pollers :
        /\ PassOver(p) /\ ~tp[p].failed /\ tp[p].reset # {}
        /\ \E s \in DOMAIN subs :
              subs[s].status = StatusGrading /\ s \notin tp[p].selected

\* the poller loops that run, and those inside processHomeworkSubmissions
RunningLoops == {p \in Pollers : ppc[p] \notin {"off", "crashed"}}
ActiveTicks == {p \in Pollers : ppc[p] \notin {"off", "idle", "crashed"}}

\* C11: StartGrader is idempotent.  After any number of StartGrader calls at
\* most one poller loop runs, and at most one execution of
\* processHomeworkSubmissions is active at any time.
C11_OneLoop ==
    /\ Cardinality(RunningLoops) <= 1
    /\ Cardinality(ActiveTicks) <= 1

\* C12: submission data invariant.  In every persisted state of every
\* submission, a response or a gradeResult that is not empty implies that
\* the status is COMPLETED or MODIFIED.
C12_DataInvariant ==
    \A s \in DOMAIN subs :
        (subs[s].response # EmptyString \/ subs[s].gradeResult # EmptyString) =>
            subs[s].status \in {StatusCompleted, StatusModified}

\* the entry of the cache that the Get and Set calls are made on
EntryOf(id) == cache[buildCacheKey(id)]
GetStep(id) == got' # got /\ got'.id = id

\* C13: cache round trip with fixed-window expiry.  A Get less than
\* downloadEvaluateCacheExpire seconds after the last Set of the key returns
\* the payload of that Set; a Get at or after that returns a miss; no Get
\* changes the entry, so Gets in between never extend the window; a Set
\* replaces the payload and restarts the window.
C13_RoundTrip ==
    [][\A id \in DownloadIds :
          /\ (GetStep(id) /\ cacheUp /\ EntryOf(id).set # NoResp) =>
                /\ cache' = cache
                /\ IF now < EntryOf(id).at + downloadEvaluateCacheExpire
                   THEN got'.err = "nil" /\ got'.resp = EntryOf(id).set
                   ELSE got'.err = "cache miss" /\ got'.resp = NoResp
          /\ \A P \in CachePayloads :
                (cacheUp /\ cache' = CacheSet(id, P) /\ cache' # cache) =>
                    /\ EntryOf(id)'.set = P
                    /\ EntryOf(id)'.at = now
                    /\ UnmarshalResp(EntryOf(id)'.val) = P]_vars

\* a Get that hit, later than the Set that restarted the window of the key
C13_Witness ==
    /\ got.err = "nil"
    /\ got.id \in DownloadIds
    /\ got.resp = EntryOf(got.id).set
    /\ EntryOf(got.id).at > 0
    /\ got.at > EntryOf(got.id).at

IdSet(ids) == {ids[i] : i \in DOMAIN ids}
IsPermutation(a, b) ==
    /\ Len(a) = Len(b)
    /\ \A x \in IdSet(a) \cup IdSet(b) : Occurrences(a, x) = Occurrences(b, x)
KeyedRequests == {r \in BatchCalls : breq[r].done}

\* C14: the batch cache key is order independent.  Two requests whose id
\* lists are permutations of each other get the same key, the list of the
\* request is not reordered by the computation, and two requests whose id
\* sets differ get different keys.
C14_KeyOrderIndependent ==
    \A r1 \in KeyedRequests, r2 \in KeyedRequests :
        /\ IsPermutation(breq[r1].ids, breq[r2].ids) => breq[r1].key = breq[r2].key
        /\ breq[r1].after = breq[r1].ids
        /\ IdSet(breq[r1].ids) # IdSet(breq[r2].ids) => breq[r1].key # breq[r2].key

\* a download call was made
Called == dl.op # None

\* C15: the cache is fail-open.  In DownloadEvaluate and
\* DownloadSubmissionEvaluate a call whose cache Get gave an error (store
\* failure, corrupt payload, miss) goes on as on a miss: it gets to the
\* artifact generation exactly when the caller may read a stored result,
\* and when the generation succeeds the fresh descriptor is returned with
\* no error, whether the cache Set that follows succeeds or fails.
C15_FailOpen ==
    (Called /\ dl.getErr # "nil") =>
        /\ (dl.po = None) = (~dl.owner \/ dl.stored = <<>>)
        /\ dl.po = "ok" =>
              /\ dl.err = None
              /\ dl.resp = Descriptor(dl.stored, Username(dl.user))
              /\ dl.setErr \in {"nil", "store error"}
        /\ dl.po # "ok" =>
              /\ dl.err \in {"ErrNotFound", "ErrCall"}
              /\ dl.resp = NoResp

\* a call during an outage of the cache store: Get and Set fail, and the
\* fresh descriptor is returned
C15_Witness ==
    /\ Called
    /\ dl.getErr = "store error"
    /\ dl.setErr = "store error"
    /\ dl.err = None
    /\ dl.resp = Descriptor(dl.stored, Username(dl.user))

\* the grading results the artifact of a descriptor was generated from
ArtifactResults(resp) == resp.url[2]

\* C16: cache entries never affect correctness.  The descriptor a download
\* call returns refers to an artifact generated from the grading result as
\* stored at the time of the call, also after EvaluateModify or
\* ModifySubmissionEvaluate has changed the stored result.
C16_ArtifactOfStoredResult ==
    (Called /\ dl.err = None) => ArtifactResults(dl.resp) = dl.stored

\* C17: users only access their own data through the download path.
\* DownloadEvaluate returns a descriptor only to the user who owns the log
\* record; for any other authenticated user it returns an error, whatever
\* the state of the cache.
C17_OwnerOnly ==
    (dl.op = "DownloadEvaluate" /\ ~dl.owner) =>
        dl.err # None /\ dl.resp = NoResp

\* the calls that hold their mutex with the remote grading call outstanding
InFlight == {c \in Calls : pc[c] \in {"held", "remote"}}
\* the calls that have not begun or have returned
HasReturned(c) == pc[c] = "done"
RecordedCalls == {logs[i].call : i \in DOMAIN logs}

\* C18: at most one grading in flight per user.  At any instant at most one
\* execution for the user is between its successful Lock() and its Unlock()
\* with a remote grading call outstanding, for every interleaving and every
\* duration of the remote call.
C18_OneInFlight == Cardinality(InFlight) <= 1

\* C19: ownership loss is not recorded.  An evaluation at whose end Unlock()
\* returned an error or Expired() was true inserts no grading log record and
\* does not decrement the quota of the user.
C19_LossNotRecorded ==
    \A c \in Calls :
        io[c].lost => (c \notin RecordedCalls /\ io[c].count # "ok")

\* C20: every evaluation path releases its lease.  A call that has returned
\* after its Lock() succeeded has called Unlock(), and a Lock() is rejected
\* only while another call of the user has begun and not yet returned.
C20_ReleasedOnReturn ==
    /\ [](\A c \in Calls :
            (HasReturned(c) /\ lockRes[c] = "ok") => unlockRes[c] # None)
    /\ [][\A c \in Calls :
            (LockStep(c) /\ lockRes'[c] = "AlreadyHeld") =>
                \E d \in Calls \ {c} : pc[d] \notin {"start", "done"}]_vars

\* a turn of the renewal loop of call c
WatchdogStep(c) ==
    /\ lk[c].wd /\ lk'[c] # lk[c]
    /\ lockRes' = lockRes /\ unlockRes' = unlockRes

\* C21: the watchdog renews only an owned lease.  A renewal turn extends the
\* TTL of the key only if the value stored under the key is the token of
\* its lease at that instant; when the stored value differs or the key is
\* absent, the turn changes nothing in the store.
C21_RenewOwnedOnly ==
    [][\A c \in Calls :
          WatchdogStep(c) =>
              /\ Stored(KeyOf(c)) # TokenOf(c) => kv' = kv
              /\ kv' # kv =>
                    /\ Stored(KeyOf(c)) = TokenOf(c)
                    /\ kv' = [kv EXCEPT ![KeyOf(c)].exp = now + InitialTTL]]_vars

\* the lease of call c ran out, call d acquired the key, and the renewal
\* loop of c has had a turn since: the key is as d set it
C21_Witness ==
    \E c, d \in Calls :
        /\ c # d
        /\ lk[c].held /\ lk[c].wd /\ lk[d].held
        /\ lk[c].due >= lk[d].at + WatchdogPeriod
        /\ kv[KeyOf(d)] = [val |-> TokenOf(d), exp |-> lk[d].exp]
        /\ lk[d].exp = lk[d].at + InitialTTL

\* poller p takes a tick from its ticker: processHomeworkSubmissions begins
TickStep(p) == ppc[p] = "idle" /\ tickDue[p] /\ ~tickDue'[p]

\* C22: the timeout pass runs on every tick.  Every execution of
\* processHomeworkSubmissions goes on to the pass over the INITIALIZED
\* submissions and then to processTimeoutSubmissions, whatever the number
\* of INITIALIZED submissions the query returned; none returns to the
\* ticker straight from the query.
C22_TimeoutPassEveryTick ==
    [][\A p \in Pollers : TickStep(p) => ppc'[p] \in {"proc", "tfind"}]_vars

InGrading(s) == s \in DOMAIN subs /\ subs[s].status = StatusGrading

\* C23: self-healing liveness.  A submission left in GRADING whose
\* updateTime has become older than 20 minutes is reset to INITIALIZED in
\* the end, with a poller running and its ticker firing; no submission stays
\* in GRADING forever.
C23_SelfHealing ==
    \A s \in SubIds :
        (InGrading(s) /\ subs[s].updateTime < now - TimeoutDuration)
            ~> ~InGrading(s)

\* poller p enters processOneSubmission with the next submission
BeginStep(p) == ppc[p] = "proc" /\ ppc'[p] \in {"mark", "fail"}

\* C24: no overlapping processing within a poller.  A tick starts
\* processHomeworkSubmissions only when the execution of the tick before is
\* over, and within a tick processOneSubmission is entered only when the
\* one before has returned, with the submission whose createTime is the
\* lowest of those not yet processed; ticks that arrive in between wait.
C24_NoOverlap ==
    [][\A p \in Pollers :
          /\ TickStep(p) =>
                cur[p] = NoDoc /\ ex[p] = NoEx /\ queue[p] = <<>> /\ tp[p] = NoPass
          /\ BeginStep(p) =>
                /\ cur[p] = NoDoc /\ ex[p] = NoEx
                /\ \A i \in DOMAIN queue'[p] : cur'[p].id < queue'[p][i].id
                /\ \A i \in DOMAIN queue'[p] :
                      \A j \in DOMAIN queue'[p] : i < j => queue'[p][i].id < queue'[p][j].id]_vars

\* the second submission of a tick is being processed, the first is done
\* with, and the next tick waits in the channel of the ticker
C24_Witness ==
    \E p \in Pollers :
        /\ ppc[p] = "stream" /\ tickDue[p]
        /\ \E s \in DOMAIN subs :
              /\ s < cur[p].id
              /\ subs[s].status \in {StatusCompleted, StatusFailed}
              /\ hist[cur[p].id] = <<StatusInitialized, StatusGrading>>

\* the pollers that have invoked the grading service for submission s and
\* wait for its stream
GradingCallsFor(s) == {p \in Pollers : ppc[p] = "stream" /\ cur[p].id = s}

\* C25: at most one grading per INITIALIZED episode.  While a submission
\* has been INITIALIZED only once, the grading service is invoked for it by
\* at most one execution of processOneSubmission, also with two poller
\* loops on the same document store.
C25_AtMostOnce ==
    \A s \in DOMAIN subs :
        hist[s] = <<StatusInitialized, StatusGrading>> =>
            Cardinality(GradingCallsFor(s)) <= 1

\* the statuses that were persisted for submission s
StatusesOf(s) == {hist[s][i] : i \in DOMAIN hist[s]}

\* C26: GRADING precedes OCR.  OCR has been invoked in a run of
\* processOneSubmission only for a submission for which GRADING was
\* persisted, and a submission that failed in OCR went INITIALIZED, GRADING,
\* FAILED.
C26_GradingBeforeOcr ==
    \A p \in Pollers :
        ex[p].ocr # None =>
            /\ StatusGrading \in StatusesOf(cur[p].id)
            /\ (ex[p].ocr # "ok" /\ subs[cur[p].id].status = StatusFailed) =>
                  hist[cur[p].id] = <<StatusInitialized, StatusGrading, StatusFailed>>

\* the changes of status the state machine of a submission has
AllowedTransitions ==
    {<<StatusInitialized, StatusGrading>>, <<StatusInitialized, StatusFailed>>,
     <<StatusGrading, StatusCompleted>>, <<StatusGrading, StatusFailed>>,
     <<StatusGrading, StatusInitialized>>, <<StatusCompleted, StatusModified>>,
     <<StatusModified, StatusModified>>}

\* C27: status transition relation.  The persisted status of a submission
\* changes only along the transitions of the state machine, and only the
\* statuses INITIALIZED, GRADING, COMPLETED, MODIFIED and FAILED are
\* persisted.
C27_TransitionRelation ==
    \A s \in SubIds :
        /\ StatusesOf(s) \subseteq {StatusInitialized, StatusGrading, StatusCompleted,
                                    StatusModified, StatusFailed}
        /\ \A i \in 1..(Len(hist[s]) - 1) :
              <<hist[s][i], hist[s][i + 1]>> \in AllowedTransitions

\* C28: FAILED is terminal.  Once FAILED is the persisted status of a
\* submission no later write changes its status: FAILED is the last entry
\* of the persisted history of every submission that has it.
C28_FailedTerminal ==
    \A s \in SubIds :
        \A i \in DOMAIN hist[s] : hist[s][i] = StatusFailed => i = Len(hist[s])

\* the run of processOneSubmission of p found no count left, or no teacher
QuotaClosed(p) ==
    /\ ex[p].phase # "none"
    /\ (ex[p].quotaBefore < 1 \/ ex[p].reason = "teacher lookup failed")

\* C29: quota fails closed.  When processOneSubmission finds the remaining
\* count of the teacher to be 0 or less, or cannot read the teacher, it calls
\* neither the OCR nor the grading, it leaves the count of the teacher as it
\* is, and it marks the submission FAILED with a message: markSubmissionFailed
\* sets the status and the message, and they are persisted when the store
\* accepts the write.
C29_QuotaFailsClosed ==
    /\ [](\A p \in Pollers : QuotaClosed(p) =>
            /\ ex[p].ocr = None
            /\ ex[p].stream = <<>>
            /\ ex[p].reason \in {"teacher lookup failed",
                                 "teacher has no grading count left"}
            /\ ppc[p] \in {"fail", "ret"})
    /\ [][\A p \in Pollers :
            (QuotaClosed(p) \/ QuotaClosed(p)') => quota' = quota]_vars
    /\ [][\A p \in Pollers :
            (QuotaClosed(p) /\ ppc[p] = "fail" /\ ppc'[p] = "ret") =>
                LET s == cur[p].id IN
                /\ cur'[p].status = StatusFailed
                /\ cur'[p].message = ex[p].reason
                /\ ex[p].reason # ""
                /\ storeUp => /\ subs'[s].status = StatusFailed
                              /\ subs'[s].message = ex[p].reason
                              /\ Last(hist'[s]) = StatusFailed]_vars

\* a run that found the count at 0 has marked its submission FAILED
C29_Witness ==
    \E p \in Pollers :
        /\ ex[p].phase = "finished"
        /\ ex[p].quotaBefore = 0
        /\ ~ex[p].storeFailed
        /\ ex[p].reason = "teacher has no grading count left"
        /\ subs[cur[p].id].status = StatusFailed
        /\ subs[cur[p].id].message = ex[p].reason
        /\ quota = 0

\* no run of processOneSubmission is between the deduction and its write
Settled(s) == \A p \in Pollers : cur[p].id = s => ppc[p] \notin {"save", "fail"}

\* C30: the count is charged exactly for completed gradings.  Whenever no
\* run is between the deduction and the write of its outcome, a submission
\* whose persisted status reached COMPLETED has been charged once and every
\* other submission has not been charged, so that the total deducted from
\* the count of the teacher is the number of submissions that reached
\* COMPLETED.
C30_ChargedForCompleted ==
    /\ \A s \in SubIds :
          Settled(s) =>
              charged[s] = IF StatusCompleted \in StatusesOf(s) THEN 1 ELSE 0
    /\ (\A s \in SubIds : Settled(s)) =>
          InitQuota - quota =
              Cardinality({s \in SubIds : StatusCompleted \in StatusesOf(s)})

\* C31: the remaining count never becomes negative.  Under every
\* interleaving of the EssayEvaluateStream calls of a user, which the lease
\* lock serializes, and of the poller processing the submissions of a
\* teacher, the stored count of the user and of the teacher is at least 0.
C31_CountNotNegative == count >= 0 /\ quota >= 0

\* C32: the poller survives every failure of one submission.  Whatever the
\* outcome of processOneSubmission, the loop of the poller keeps running, and
\* a run that ended on a failure has set its submission to FAILED and goes
\* on to the remaining submissions of the tick.
C32_PollerSurvives ==
    \A p \in Pollers :
        /\ ppc[p] # "crashed"
        /\ (ex[p].phase = "finished" /\ ex[p].reason # "") =>
              /\ cur[p].status = StatusFailed
              /\ ppc[p] = "ret"

\* the places of the complete events in a sequence of events
CompleteAt(q) == {i \in DOMAIN q : q[i].type = "complete"}

\* C33: complete is authoritative and terminal.  No event follows a complete
\* event on the internal channel; once the synchronous relay has consumed a
\* complete event it has left its loop, its finalResult is the payload of
\* that event (empty when the data is not an object) and it sends no
\* downstream error message; in the poller the finalResult of a stream with
\* a complete event is the payload of that event, and the submission is not
\* failed for a later error event.
C33_CompleteTerminal ==
    /\ \A c \in Calls : \A i \in CompleteAt(emitted[c]) :
          /\ i = Len(emitted[c])
          /\ down[c] = <<>> =>
                /\ pc[c] # "relay"
                /\ finalResult[c] = IF IsObject(emitted[c][i].data)
                                    THEN Marshal(emitted[c][i].data)
                                    ELSE EmptyString
                /\ \A j \in DOMAIN sent[c] :
                      sent[c][j].message # "downstream service error"
    /\ \A p \in Pollers : \A i \in CompleteAt(ex[p].stream) :
          /\ i = Len(ex[p].stream)
          /\ ex[p].finalResult = IF ex[p].stream[i].data \in Payloads
                                 THEN Marshal(ex[p].stream[i].data)
                                 ELSE EmptyString
          /\ ex[p].reason \notin {"boom", "panic"}

\* a call has consumed a complete event and returned nil, and the poller
\* has saved the payload of the complete event of its stream
C33_Witness ==
    /\ \E c \in Calls :
          /\ CompleteAt(emitted[c]) # {}
          /\ pc[c] = "done" /\ ret[c] = "nil"
    /\ \E p \in Pollers :
          /\ CompleteAt(ex[p].stream) # {}
          /\ ex[p].phase = "finished"
          /\ subs[cur[p].id].status = StatusCompleted
          /\ subs[cur[p].id].response = ex[p].finalResult

\* C34: the consumer loop ends once the remote call has returned.  The
\* producer closes the internal channel on every return, and a relay whose
\* producer has returned drains the channel, leaves its loop and returns.
C34_LoopTerminates ==
    /\ [](\A c \in Calls : prod[c] = "done" => downClosed[c])
    /\ \A c \in Calls : (prod[c] = "done") ~> (pc[c] = "done")

\* a relay has returned after its producer returned without a complete or
\* an error event
C34_Witness ==
    \E c \in Calls :
        /\ prod[c] = "done" /\ pc[c] = "done"
        /\ \A i \in DOMAIN emitted[c] : ~StopsStream(emitted[c][i])

\* the relay of call c has left its read loop
LeftLoop(c) == lockRes[c] = "ok" /\ pc[c] \in {"insert", "count", "unlock", "done"}

\* C35: the producer task is never leaked.  When the read loop of the relay
\* has stopped, on a complete event, on an error event or on the closed
\* channel, the producer has returned and closed the internal channel, and
\* when the context of the caller is cancelled the producer returns and
\* closes the channel in the end; it is not left blocked on a send.
C35_ProducerNotLeaked ==
    /\ [](\A c \in Calls : LeftLoop(c) => prod[c] = "done" /\ downClosed[c])
    /\ \A c \in Calls :
          cancelled[c].fired ~> (prod[c] = "done" /\ downClosed[c])

\* the producer of a call cancelled in its relay has read no event after
\* the cancellation, has returned and has closed the channel
C35_Witness ==
    \E c \in Calls :
        /\ cancelled[c].fired /\ cancelled[c].inRelay
        /\ prod[c] = "done" /\ downClosed[c]
        /\ Len(emitted[c]) = cancelled[c].emitLen
        /\ pc[c] = "done"

\* the submission is persisted with a terminal status
Terminal(s) ==
    s \in DOMAIN subs /\ subs[s].status \in {StatusCompleted, StatusFailed}

\* C36: every submission reaches a terminal outcome.  With one poller that
\* keeps ticking, a store that accepts the writes and OCR and grading calls
\* that return, every submission that was inserted is persisted as COMPLETED
\* or FAILED in the end.
C36_ReachesTerminal ==
    \A s \in SubIds : (s \in DOMAIN subs) ~> Terminal(s)

\* the places of the terminal messages among the messages issued
TerminalsAt(q) == {i \in DOMAIN q : q[i].type \in {STComplete, STError}}

\* C37: exactly one terminal message per evaluation.  On every path
\* EssayEvaluateStream issues at most one complete or error message, it
\* issues it last, a call that has returned has issued exactly one, and the
\* message is a complete message exactly when the call returns nil.
C37_OneTerminalMessage ==
    \A c \in Calls :
        /\ Cardinality(TerminalsAt(sent[c])) <= 1
        /\ \A i \in TerminalsAt(sent[c]) :
              /\ i = Len(sent[c])
              /\ ret[c] # None
              /\ sent[c][i].type = STComplete <=> ret[c] = "nil"
        /\ ret[c] # None => TerminalsAt(sent[c]) # {}

\* a call that forwarded a part message ended on the failure of the count
\* update with one error message
C37_Witness ==
    \E c \in Calls :
        /\ pc[c] = "done" /\ io[c].count = "failed"
        /\ Len(sent[c]) >= 2
        /\ sent[c][1].type = STPart
        /\ Last(sent[c]).type = STError

\* the next step of EssayEvaluateStream can be taken
NotBlocked(c) ==
    /\ pc[c] = "start" => ENABLED Begin(c)
    /\ pc[c] = "lock" => ENABLED TryLock(c)
    /\ (pc[c] = "relay" /\ down[c] # <<>>) => ENABLED ConsumerRecv(c)
    /\ (pc[c] = "relay" /\ down[c] = <<>> /\ downClosed[c]) => ENABLED ConsumerClosed(c)
    /\ pc[c] = "insert" => ENABLED LogInsert(c)
    /\ pc[c] = "count" => ENABLED UpdateCount(c)
    /\ pc[c] = "unlock" => ENABLED DeferredUnlock(c)

\* C38: the relay never blocks on its sink.  Whatever the sink channel
\* holds, the next step of EssayEvaluateStream can be taken; a message
\* issued while the channel is full is dropped and the channel is left as it
\* is; and a call whose producer has returned while the channel is full and
\* is not read any more runs to its end and gives up its lock.
C38_NeverBlocksOnSink ==
    /\ [](\A c \in Calls : NotBlocked(c))
    /\ [][\A c \in Calls :
            sent'[c] # sent[c] =>
                /\ Len(sent'[c]) = Len(sent[c]) + 1
                /\ sink'[c] = IF Len(sink[c]) < SinkCap
                              THEN Append(sink[c], Last(sent'[c]))
                              ELSE sink[c]]_vars
    /\ \A c \in Calls :
          (prod[c] = "done" /\ Len(sink[c]) = SinkCap)
              ~> (pc[c] = "done" /\ ~lk[c].held)

\* a call whose messages were dropped on the full sink channel has returned
\* and released its lock, with the channel still full
C38_Witness ==
    \E c \in Calls :
        /\ pc[c] = "done" /\ unlockRes[c] = "ok"
        /\ Len(recvd[c]) < Len(sent[c])
        /\ Len(sink[c]) = SinkCap
        /\ Stored(KeyOf(c)) # TokenOf(c)

\* C39: GetSubmissionEvaluate returns the stored response exactly when the
\* persisted status is COMPLETED.  A call returns a response only for a
\* submission that is COMPLETED, and then the stored one; a call of an
\* authenticated user for a submission that is read returns the stored
\* response when the status is COMPLETED and the not-graded error with no
\* response for every other status; no call changes a submission.
C39_ResponseIffCompleted ==
    [][getRes' # getRes =>
         LET found == SubsOf(getRes'.id) IN
         /\ subs' = subs /\ hist' = hist
         /\ ~getRes'.nil =>
               \E s \in found :
                  /\ subs[s].status = StatusCompleted
                  /\ getRes'.response = subs[s].response
                  /\ getRes'.err = None
         /\ (getRes'.user # "" /\ storeUp) =>
               \A s \in found :
                  IF subs[s].status = StatusCompleted
                  THEN /\ ~getRes'.nil
                       /\ getRes'.response = subs[s].response
                       /\ getRes'.err = None
                  ELSE /\ getRes'.nil
                       /\ getRes'.err = "ErrHomeworkNotGrade"]_vars

\* a call for a submission with a modified result got the not-graded error
C39_Witness ==
    /\ getRes.status = StatusModified
    /\ getRes.err = "ErrHomeworkNotGrade"
    /\ getRes.nil

====
